---- MODULE Spec2Model ----
(***************************************************************************)
(* Identity-change verification state machine of the profile service:      *)
(* owner (Admin/AdminProfile) and customer (Customer/CustomerProfile)      *)
(* profile creation, profile update (phone change, email-change            *)
(* initiation) and email-change confirmation.  Every service call runs in  *)
(* one interactive Prisma transaction on PostgreSQL at the default         *)
(* isolation level (READ COMMITTED): each statement is one step, reads see *)
(* committed rows plus the transaction's own writes, a write locks its row *)
(* until the transaction ends, and unique indexes are checked at the       *)
(* write.                                                                  *)
(***************************************************************************)
EXTENDS Integers, Sequences, FiniteSets, TLC

\* ---------------------------------------------------------------- bounds
MaxVersion == 3

\* ------------------------------------------------------------ value sets
Ids == {1, 2}
NoSuchId == 0
Procs == {1, 2}

Absent == "undefined"
Null == "null"

Emails == {"a@x.com", "c@x.com", "d@x.com"}
PaddedEmail == " c@x.com "
BlankEmail == "  "
MalformedEmail == "c-at-x"

\* String.prototype.trim on the strings the model uses.
Trim(s) ==
    CASE s = PaddedEmail -> "c@x.com"
      [] s = BlankEmail -> ""
      [] OTHER -> s

\* /^[^@\s]+@[^@\s]+\.[^@\s]+$/ on the strings the model uses.
EmailFormatOk(s) == s \in Emails \cup {"b@x.com"}

\* Phones are sequences of characters so that normalisation is computed.
Digit == {"0", "1", "2", "3", "4", "5", "6", "7", "8", "9"}
PhA == <<"9", "8", "7", "6", "5", "4", "3", "2", "1", "0">>
PhB == <<"9", "8", "7", "6", "5", "4", "3", "2", "1", "1">>
PhC == <<"9", "8", "7", "6", "5", "4", "3", "2", "1", "2">>

NoPhone == <<>>
AbsentPhone == <<"undefined">>
NullPhone == <<"null">>

IsDigit(c) == c \in Digit

\* String.prototype.trim on a sequence of characters.
RECURSIVE TrimLeft(_)
TrimLeft(s) == IF s # <<>> /\ Head(s) = " " THEN TrimLeft(Tail(s)) ELSE s
RECURSIVE TrimRight(_)
TrimRight(s) ==
    IF s # <<>> /\ s[Len(s)] = " " THEN TrimRight(SubSeq(s, 1, Len(s) - 1)) ELSE s
TrimSeq(s) == TrimRight(TrimLeft(s))
\* raw.replace(/\D/g, "")
DigitsOnly(raw) == SelectSeq(raw, IsDigit)

\* ------------------------------------------------------------ rows
\* Optional text columns hold sequences of characters, NullPhone when null.
NoProfileRow ==
    [exists |-> FALSE, phone |-> NoPhone, email |-> Null, fullName |-> Null,
     shortBio |-> NullPhone, isGstRegistered |-> FALSE, gstNumber |-> NullPhone,
     gstLegalName |-> NullPhone, gstStateCode |-> NullPhone,
     gstBillingAddress |-> NullPhone, pincode |-> NullPhone, address |-> NullPhone]

\* The optional profile fields of an update call, all absent.
NoFields ==
    [shortBio |-> AbsentPhone, isGstRegistered |-> Absent, gstNumber |-> AbsentPhone,
     gstLegalName |-> AbsentPhone, gstStateCode |-> AbsentPhone,
     gstBillingAddress |-> AbsentPhone, pincode |-> AbsentPhone, address |-> AbsentPhone]

\* adminProfileUpdateData / profileUpdateData restricted to the optional
\* fields: the values staged for the write, absent when the key is not set,
\* and the error their validation throws.
NoOptional ==
    [err |-> [code |-> 0, msg |-> ""],
     shortBio |-> AbsentPhone, isGstRegistered |-> Absent, gstNumber |-> AbsentPhone,
     gstLegalName |-> AbsentPhone, gstStateCode |-> AbsentPhone,
     gstBillingAddress |-> AbsentPhone, pincode |-> AbsentPhone, address |-> AbsentPhone]

\* ------------------------------------------------------------ results
NoResult == [code |-> 0, msg |-> ""]
Ok == [code |-> 200, msg |-> "ok"]
Err(code, msg) == [code |-> code, msg |-> msg]

\* ------------------------------------------------------------ tokens
NoToken == [id |-> NoSuchId, newEmail |-> Null, oldEmail |-> Null, version |-> -1]

\* emailChangeToken(payload): signs {ownerId|customerId, newEmail, oldEmail,
\* version}; the signed token is represented by its payload.
emailChangeToken(id, newEmail, oldEmail, version) ==
    [id |-> id, newEmail |-> newEmail, oldEmail |-> oldEmail, version |-> version]

\* Phone-verification tokens: signature state, isVerified and raw phone.
ShortPhoneToken == [sig |-> "ok", isVerified |-> TRUE, phone |-> <<"1", "2", "3">>]
PhoneTokens ==
    [sig : {"ok"}, isVerified : {TRUE}, phone : {PhA, PhB, <<"+">> \o PhB}]
      \cup [sig : {"ok"}, isVerified : {FALSE}, phone : {PhA}]
      \cup {ShortPhoneToken}
      \cup [sig : {"expired", "bad"}, isVerified : {TRUE}, phone : {PhA}]
NoPhoneToken == [sig |-> "none", isVerified |-> FALSE, phone |-> NoPhone]

PhoneNotVerified == Err(400, "Phone number is not verified - Please verify first before update.")

PHONE_VERIFICATION_SECRET == TRUE

\* verifyPhoneVerificationToken without its test of isVerified.
verifyPhoneVerificationToken_IgnoresIsVerified(token) ==
    IF ~PHONE_VERIFICATION_SECRET
    THEN [ok |-> FALSE, phone |-> NoPhone,
          err |-> Err(500, "Phone verification is temporarily unavailable. Please try again later.")]
    ELSE IF token.sig = "expired"
    THEN [ok |-> FALSE, phone |-> NoPhone,
          err |-> Err(401, "Phone verification token has expired. Please verify your phone again.")]
    ELSE IF token.sig # "ok"
    THEN [ok |-> FALSE, phone |-> NoPhone, err |-> PhoneNotVerified]
    ELSE IF token.phone = NoPhone
    THEN [ok |-> FALSE, phone |-> NoPhone, err |-> PhoneNotVerified]
    ELSE [ok |-> TRUE, phone |-> token.phone, err |-> NoResult]

\* verifyPhoneVerificationToken(token) of OwnerProfileService.ts.
verifyPhoneVerificationToken(token) ==
    IF ~PHONE_VERIFICATION_SECRET
    THEN [ok |-> FALSE, phone |-> NoPhone,
          err |-> Err(500, "Phone verification is temporarily unavailable. Please try again later.")]
    ELSE IF token.sig = "expired"
    THEN [ok |-> FALSE, phone |-> NoPhone,
          err |-> Err(401, "Phone verification token has expired. Please verify your phone again.")]
    ELSE IF token.sig # "ok"
    THEN [ok |-> FALSE, phone |-> NoPhone, err |-> PhoneNotVerified]
    ELSE IF token.phone = NoPhone \/ ~token.isVerified
    THEN [ok |-> FALSE, phone |-> NoPhone, err |-> PhoneNotVerified]
    ELSE [ok |-> TRUE, phone |-> token.phone, err |-> NoResult]


\* ------------------------------------------------------------ state
VARIABLES
    variant,    \* "owner" (Admin/AdminProfile) or "customer" (Customer/CustomerProfile)
    identity,   \* committed Admin / Customer rows, by id
    profile,    \* committed AdminProfile / CustomerProfile rows, by identity id
    proc,       \* per request slot: the call in progress and its open transaction
    issued,     \* email-change tokens returned to callers
    used,       \* email-change tokens a confirmation has accepted
    hist,       \* what the call that finished last returned
    tokenBlacklist, \* tokenHash column of the TokenBlacklist rows
    req         \* the request that authenticateToken is handling

vars == <<variant, identity, profile, proc, issued, used, hist, tokenBlacklist, req>>

\* An access token: whose it is and what jwt.verify makes of it.  jwt.decode
\* reads the payload of all three kinds.
AccessTokens == [sub : {1, 2}, kind : {"valid", "forged", "expired"}]
NoAccessToken == [sub |-> 0, kind |-> "none"]

\* crypto.createHash("sha256").update(token).digest("hex"), taken as
\* collision-free.
hashToken(token) == <<"sha256", token.sub, token.kind>>

\* req.user before authenticateToken has attached the decoded payload.
NoUser == [id |-> 0]

\* No request at the middleware.  revoked notes whether the token's hash was
\* in the blacklist when isTokenBlacklisted was called.
NoRequest ==
    [pc |-> "idle", token |-> NoAccessToken, revoked |-> FALSE, user |-> NoUser,
     reply |-> NoResult]

NoIdentityRow ==
    [email |-> Null, isActive |-> FALSE, isProfileComplete |-> FALSE,
     emailVerifyVersion |-> -1, pendingEmail |-> Null, fullName |-> Null]

\* A request slot: the call, the values it decided on (the new email, name
\* and phone it will write, Absent when it writes none), what it remembers of
\* the rows it loaded, the rows its open transaction has written, the
\* optional profile fields of the request and what is staged for them.
IdleProc ==
    [op |-> "none", pc |-> "idle", id |-> NoSuchId,
     email |-> Absent, fullName |-> Absent, phone |-> AbsentPhone, etoken |-> NoToken,
     isActive |-> FALSE, hasProfile |-> FALSE, v0 |-> -1,
     lockI |-> FALSE, rowI |-> NoIdentityRow, lockP |-> FALSE, rowP |-> NoProfileRow,
     found |-> FALSE, link |-> NoToken, result |-> NoResult, conc |-> {},
     fields |-> NoFields, opt |-> NoOptional]

\* link: the token the last finished call returned, v0: the version it
\* started from; roundTrip: that call confirmed the token returned by the
\* call finished just before it.
NoHist == [link |-> NoToken, v0 |-> -1, roundTrip |-> FALSE]

InitialEmail(i) == IF i = 1 THEN "a@x.com" ELSE "b@x.com"

\* Identities as sign-up leaves them: no profile, version 0, not active.
\* Owner 1 is the seeded administrator, which seed.ts creates active.
Init ==
    /\ variant \in {"owner", "customer"}
    /\ identity = [i \in Ids |->
                     [email |-> InitialEmail(i), isActive |-> (variant = "owner" /\ i = 1),
                      isProfileComplete |-> FALSE, emailVerifyVersion |-> 0,
                      pendingEmail |-> Null, fullName |-> "Asha"]]
    /\ profile = [i \in Ids |-> NoProfileRow]
    /\ proc = [p \in Procs |-> IdleProc]
    /\ issued = {}
    /\ used = {}
    /\ hist = NoHist
    /\ tokenBlacklist = {}
    /\ req = NoRequest

\* ------------------------------------------------------------ transactions
InFlight(q) == proc[q].pc \notin {"idle", "done"}
CanStart(p) == proc[p].pc = "idle"

\* The caller's slot takes the new call; calls in flight note the overlap.
Started(p, r) ==
    [q \in Procs |->
        IF q = p THEN [r EXCEPT !.conc = {x \in Procs \ {p} : InFlight(x)}]
        ELSE IF InFlight(q) THEN [proc[q] EXCEPT !.conc = @ \cup {p}]
        ELSE proc[q]]

\* Version counters are capped: a call that may increment the counter of an
\* identity starts only while its increment, and that of every such call in
\* flight on the identity, still fits under the cap.
MayBump(r) == (r.op = "update" /\ r.email # Absent) \/ r.op = "confirm"
CanBump(p, i) ==
    i \in Ids =>
        identity[i].emailVerifyVersion
          + Cardinality({q \in Procs \ {p} : InFlight(q) /\ proc[q].id = i
                                              /\ MayBump(proc[q])}) < MaxVersion

\* The tokens issued are capped with it: one fewer than the cap.
CanIssue(p) ==
    Cardinality(issued)
      + Cardinality({q \in Procs \ {p} : InFlight(q) /\ proc[q].op = "update"
                                          /\ proc[q].email # Absent}) < MaxVersion - 1

\* Row locks of READ COMMITTED: a row written by an open transaction.
IdentityLockedByOther(p, i) == \E q \in Procs \ {p} : proc[q].lockI /\ proc[q].id = i
ProfileLockedByOther(p, i) == \E q \in Procs \ {p} : proc[q].lockP /\ proc[q].id = i

\* What the transaction of p reads for its own rows.
ViewI(r) == IF r.lockI THEN r.rowI ELSE identity[r.id]
ViewP(r) == IF r.lockP THEN r.rowP ELSE profile[r.id]

\* Unique index on the profile's phone: a writer waits for an open
\* transaction that holds a row with the same key, then fails if a committed
\* row of another identity has it.
PhoneIndexWait(p, i, ph) ==
    \E q \in Procs \ {p} :
        /\ proc[q].lockP /\ proc[q].id # i
        /\ \/ proc[q].rowP.phone = ph
           \/ profile[proc[q].id].exists /\ profile[proc[q].id].phone = ph
PhoneIndexViolation(i, ph) ==
    \E j \in Ids \ {i} : profile[j].exists /\ profile[j].phone = ph

\* Unique index on the profile's GST number, which the catch blocks name;
\* null is no key.
GstIndexViolation(i, gst) ==
    \E j \in Ids \ {i} : profile[j].exists /\ profile[j].gstNumber = gst

\* Unique index on the identity's email.
EmailIndexWait(p, i, e) ==
    \E q \in Procs \ {p} :
        /\ proc[q].lockI /\ proc[q].id # i
        /\ (proc[q].rowI.email = e \/ identity[proc[q].id].email = e)
EmailIndexViolation(i, e) ==
    \E j \in Ids \ {i} : identity[j].email = e

\* What stays of a call once it has finished: what it was, and its outcome.
DoneRec(r, res) ==
    [IdleProc EXCEPT !.op = r.op, !.pc = "done", !.id = r.id, !.phone = r.phone,
                     !.etoken = r.etoken, !.conc = r.conc, !.result = res,
                     !.fields = r.fields,
                     !.link = IF res = Ok THEN r.link ELSE NoToken]

HistOf(r, res) ==
    IF res = Ok /\ r.link # NoToken
    THEN [link |-> r.link, v0 |-> r.v0, roundTrip |-> FALSE]
    ELSE IF res = Ok /\ r.op = "confirm" /\ hist.link = r.etoken
    THEN [link |-> NoToken, v0 |-> hist.v0, roundTrip |-> TRUE]
    ELSE NoHist

\* A thrown error after which the statements already run stay applied.
Abort_KeepsWrites(procs, p, r, res) ==
    /\ proc' = [procs EXCEPT ![p] = DoneRec(r, res)]
    /\ UNCHANGED <<tokenBlacklist, req>>
    /\ hist' = HistOf(r, res)
    /\ identity' = IF r.lockI THEN [identity EXCEPT ![r.id] = r.rowI] ELSE identity
    /\ profile' = IF r.lockP THEN [profile EXCEPT ![r.id] = r.rowP] ELSE profile
    /\ UNCHANGED <<variant, issued, used>>

\* A thrown error: prisma.$transaction rolls back, nothing is written.
Abort(procs, p, r, res) ==
    /\ proc' = [procs EXCEPT ![p] = DoneRec(r, res)]
    /\ UNCHANGED <<tokenBlacklist, req>>
    /\ hist' = HistOf(r, res)
    /\ UNCHANGED <<variant, identity, profile, issued, used>>

\* The callback returned: the transaction's writes become visible at once.
Commit(p, r) ==
    /\ identity' = IF r.lockI THEN [identity EXCEPT ![r.id] = r.rowI] ELSE identity
    /\ profile' = IF r.lockP THEN [profile EXCEPT ![r.id] = r.rowP] ELSE profile
    /\ issued' = IF r.link # NoToken THEN issued \cup {r.link} ELSE issued
    /\ used' = IF r.op = "confirm" THEN used \cup {r.etoken} ELSE used
    /\ proc' = [proc EXCEPT ![p] = DoneRec(r, Ok)]
    /\ UNCHANGED <<tokenBlacklist, req>>
    /\ hist' = HistOf(r, Ok)
    /\ UNCHANGED variant

\* One more statement of the open transaction.
Continue(procs, p, r) ==
    /\ proc' = [procs EXCEPT ![p] = r]
    /\ UNCHANGED <<tokenBlacklist, req>>
    /\ UNCHANGED <<variant, identity, profile, issued, used, hist>>

\* The controller has sent the reply; the slot is free for the next request.
Reply(p) ==
    /\ proc[p].pc = "done"
    /\ proc' = [proc EXCEPT ![p] = IdleProc]
    /\ UNCHANGED <<tokenBlacklist, req>>
    /\ UNCHANGED <<variant, identity, profile, issued, used, hist>>

\* ------------------------------------------------------------ owner update
OwnerEmailInputs == {Absent, Null} \cup Emails \cup {PaddedEmail, BlankEmail, MalformedEmail}
OwnerNameInputs == {Absent, Null, "Ravi", BlankEmail}

\* wantsEmailChange of UpdateOwnerProfileService.
OwnerWantsEmailChange(email, currentEmail) ==
    /\ email # Absent
    /\ email # Null
    /\ Trim(email) # ""
    /\ Trim(email) # currentEmail

\* Steps 2-4 of UpdateOwnerProfileService without the mutual-exclusion rule.
OwnerUpdateDecide_NoMutualExclusion(email, fullName, ptoken, admin, prof) ==
    LET wantsEmail == OwnerWantsEmailChange(email, admin.email)
        hasToken == ptoken # NoPhoneToken
        v == verifyPhoneVerificationToken(ptoken)
        rawPhone == TrimSeq(v.phone)
        normalizedPhone == DigitsOnly(rawPhone)
        wantsPhone == hasToken /\ v.ok /\ normalizedPhone # prof.phone
        err ==
            IF hasToken /\ ~v.ok THEN v.err
            ELSE IF hasToken /\ rawPhone = NoPhone
            THEN Err(400, "Phone number not found in verification token. Please re-verify your phone.")
            ELSE IF hasToken /\ (normalizedPhone = NoPhone \/ Len(normalizedPhone) < 7)
            THEN Err(400, "Invalid phone number in verification token. Please re-verify your phone.")
            ELSE IF fullName \notin {Absent, Null} /\ Trim(fullName) = ""
            THEN Err(400, "Full name cannot be empty")
            ELSE NoResult
    IN  [err |-> err, wantsEmail |-> wantsEmail, wantsPhone |-> wantsPhone,
         phone |-> normalizedPhone]

\* Steps 2-4 of UpdateOwnerProfileService: the phone token, the two change
\* flags, the mutual-exclusion rule and the fullName check.
OwnerUpdateDecide(email, fullName, ptoken, admin, prof) ==
    LET wantsEmail == OwnerWantsEmailChange(email, admin.email)
        hasToken == ptoken # NoPhoneToken
        v == verifyPhoneVerificationToken(ptoken)
        rawPhone == TrimSeq(v.phone)
        normalizedPhone == DigitsOnly(rawPhone)
        wantsPhone == hasToken /\ v.ok /\ normalizedPhone # prof.phone
        err ==
            IF hasToken /\ ~v.ok THEN v.err
            ELSE IF hasToken /\ rawPhone = NoPhone
            THEN Err(400, "Phone number not found in verification token. Please re-verify your phone.")
            ELSE IF hasToken /\ (normalizedPhone = NoPhone \/ Len(normalizedPhone) < 7)
            THEN Err(400, "Invalid phone number in verification token. Please re-verify your phone.")
            ELSE IF wantsEmail /\ wantsPhone
            THEN Err(400, "You can update either email or phone at a time, not both")
            ELSE IF fullName \notin {Absent, Null} /\ Trim(fullName) = ""
            THEN Err(400, "Full name cannot be empty")
            ELSE NoResult
    IN  [err |-> err, wantsEmail |-> wantsEmail, wantsPhone |-> wantsPhone,
         phone |-> normalizedPhone]

\* hasAdminChanges taken to hold for every call.
OwnerHasAdminChanges_Always(r) == TRUE

OwnerHasAdminChanges(r) == r.fullName # Absent

\* value.toString().trim() || null for a field that is given and may be null.
OptionalText(v) ==
    IF v = NullPhone \/ TrimSeq(v) = <<>> THEN NullPhone ELSE TrimSeq(v)

\* Steps 5 and 7 of UpdateOwnerProfileService for shortBio and the GST and
\* billing block: the final values start from the loaded profile, and the
\* block is written whole once any of its inputs is given.
OwnerStageOptional(in, prof) ==
    LET hasIsGstRegisteredInput == in.isGstRegistered # Absent
        finalIsGstRegistered ==
            IF hasIsGstRegisteredInput THEN in.isGstRegistered = "true"
            ELSE prof.isGstRegistered
        Final(f) == IF in[f] = AbsentPhone THEN prof[f] ELSE OptionalText(in[f])
        gstNumber == Final("gstNumber")
        gstLegalName == Final("gstLegalName")
        gstStateCode == Final("gstStateCode")
        raw == TrimSeq(in.pincode)
        normalizedPincode == SelectSeq(raw, LAMBDA c : c # " ")
        pincodeGiven == in.pincode \notin {AbsentPhone, NullPhone} /\ raw # <<>>
        finalPincode ==
            IF in.pincode = AbsentPhone THEN prof.pincode
            ELSE IF pincodeGiven THEN normalizedPincode ELSE NullPhone
        disabling == hasIsGstRegisteredInput /\ ~finalIsGstRegistered
        gstTouched ==
            \/ hasIsGstRegisteredInput
            \/ \E f \in {"gstNumber", "gstLegalName", "gstStateCode", "gstBillingAddress",
                         "pincode"} : in[f] # AbsentPhone
        Staged(f) == IF ~gstTouched THEN AbsentPhone
                     ELSE IF disabling THEN NullPhone
                     ELSE Final(f)
        err ==
            IF /\ pincodeGiven
               /\ ~(/\ \A k \in 1..Len(normalizedPincode) : IsDigit(normalizedPincode[k])
                    /\ Len(normalizedPincode) \in 4..10)
            THEN Err(400, "Pincode must be between 4 and 10 digits if provided.")
            ELSE IF finalIsGstRegistered /\ gstNumber = NullPhone
            THEN Err(400, "GST number is required when GST registration is enabled.")
            ELSE IF finalIsGstRegistered /\ gstLegalName = NullPhone
            THEN Err(400, "GST legal name is required when GST registration is enabled.")
            ELSE IF finalIsGstRegistered /\ gstStateCode = NullPhone
            THEN Err(400, "GST state code is required when GST registration is enabled.")
            ELSE IF finalIsGstRegistered /\ Len(gstNumber) # 15
            THEN Err(400, "GST number must be exactly 15 characters as per GSTIN format.")
            ELSE IF /\ finalIsGstRegistered
                    /\ ~(Len(gstStateCode) = 2 /\ \A k \in 1..2 : IsDigit(gstStateCode[k]))
            THEN Err(400, "GST state code must be a 2-digit numeric code.")
            ELSE NoResult
    IN  [err |-> err,
         shortBio |-> IF in.shortBio = AbsentPhone THEN AbsentPhone
                      ELSE OptionalText(in.shortBio),
         isGstRegistered |-> IF ~gstTouched THEN Absent
                             ELSE IF finalIsGstRegistered THEN "true" ELSE "false",
         gstNumber |-> Staged("gstNumber"),
         gstLegalName |-> Staged("gstLegalName"),
         gstStateCode |-> Staged("gstStateCode"),
         gstBillingAddress |-> Staged("gstBillingAddress"),
         pincode |-> IF gstTouched THEN finalPincode ELSE AbsentPhone,
         address |-> AbsentPhone]

\* adminProfileUpdateData with null staged like an absent key.
adminProfileUpdateData_SkipsNull(r, row) ==
    [row EXCEPT
        !.phone = IF r.phone # AbsentPhone THEN r.phone ELSE @,
        !.shortBio = IF r.opt.shortBio \notin {AbsentPhone, NullPhone}
                     THEN r.opt.shortBio ELSE @,
        !.isGstRegistered = IF r.opt.isGstRegistered # Absent
                            THEN r.opt.isGstRegistered = "true" ELSE @,
        !.gstNumber = IF r.opt.gstNumber \notin {AbsentPhone, NullPhone}
                      THEN r.opt.gstNumber ELSE @,
        !.gstLegalName = IF r.opt.gstLegalName \notin {AbsentPhone, NullPhone}
                         THEN r.opt.gstLegalName ELSE @,
        !.gstStateCode = IF r.opt.gstStateCode \notin {AbsentPhone, NullPhone}
                         THEN r.opt.gstStateCode ELSE @,
        !.gstBillingAddress = IF r.opt.gstBillingAddress \notin {AbsentPhone, NullPhone}
                              THEN r.opt.gstBillingAddress ELSE @,
        !.pincode = IF r.opt.pincode \notin {AbsentPhone, NullPhone}
                    THEN r.opt.pincode ELSE @,
        !.address = IF r.opt.address # AbsentPhone THEN r.opt.address ELSE @]

\* The data of tx.adminProfile.update leaving the GST block as stored on
\* isGstRegistered = false.
adminProfileUpdateData_KeepsDisabled(r, row) ==
    LET Kept(f) == IF r.fields.isGstRegistered = "false" THEN AbsentPhone ELSE r.opt[f]
    IN  [row EXCEPT
            !.phone = IF r.phone # AbsentPhone THEN r.phone ELSE @,
            !.shortBio = IF r.opt.shortBio # AbsentPhone THEN r.opt.shortBio ELSE @,
            !.isGstRegistered = IF r.opt.isGstRegistered # Absent
                                THEN r.opt.isGstRegistered = "true" ELSE @,
            !.gstNumber = IF Kept("gstNumber") # AbsentPhone THEN r.opt.gstNumber ELSE @,
            !.gstLegalName = IF Kept("gstLegalName") # AbsentPhone
                             THEN r.opt.gstLegalName ELSE @,
            !.gstStateCode = IF Kept("gstStateCode") # AbsentPhone
                             THEN r.opt.gstStateCode ELSE @,
            !.gstBillingAddress = IF Kept("gstBillingAddress") # AbsentPhone
                                  THEN r.opt.gstBillingAddress ELSE @,
            !.pincode = IF r.opt.pincode # AbsentPhone THEN r.opt.pincode ELSE @,
            !.address = IF r.opt.address # AbsentPhone THEN r.opt.address ELSE @]

\* The row that tx.adminProfile.update({data: adminProfileUpdateData})
\* leaves: the staged keys replace the columns, the other columns stay.
adminProfileUpdateData(r, row) ==
    [row EXCEPT
        !.phone = IF r.phone # AbsentPhone THEN r.phone ELSE @,
        !.shortBio = IF r.opt.shortBio # AbsentPhone THEN r.opt.shortBio ELSE @,
        !.isGstRegistered = IF r.opt.isGstRegistered # Absent
                            THEN r.opt.isGstRegistered = "true" ELSE @,
        !.gstNumber = IF r.opt.gstNumber # AbsentPhone THEN r.opt.gstNumber ELSE @,
        !.gstLegalName = IF r.opt.gstLegalName # AbsentPhone THEN r.opt.gstLegalName ELSE @,
        !.gstStateCode = IF r.opt.gstStateCode # AbsentPhone THEN r.opt.gstStateCode ELSE @,
        !.gstBillingAddress = IF r.opt.gstBillingAddress # AbsentPhone
                              THEN r.opt.gstBillingAddress ELSE @,
        !.pincode = IF r.opt.pincode # AbsentPhone THEN r.opt.pincode ELSE @,
        !.address = IF r.opt.address # AbsentPhone THEN r.opt.address ELSE @]

OwnerHasProfileChanges(r) ==
    \/ r.phone # AbsentPhone
    \/ [r.opt EXCEPT !.err = NoResult] # NoOptional

\* The statement that follows the staged writes of UpdateOwnerProfileService.
OwnerApplyPc(r) ==
    IF OwnerHasAdminChanges(r) THEN "applyAdmin"
    ELSE IF OwnerHasProfileChanges(r) THEN "applyProfile"
    ELSE "commit"

\* tx.admin.findUnique({include: {profile}}) and the checks up to the first
\* query that follows.
UpdateOwnerProfileService_LoadFields(p, i, email, fullName, ptoken, fields) ==
    LET r0 == [IdleProc EXCEPT !.op = "update", !.pc = "load", !.id = i]
        procs == Started(p, r0)
    IN  /\ variant = "owner"
        /\ CanStart(p)
        /\ (email \notin {Absent, Null} => CanBump(p, i) /\ CanIssue(p))
        /\ IF i \notin Ids
           THEN Abort(procs, p, IdleProc, Err(404, "Owner not found"))
           ELSE IF ~profile[i].exists
           THEN Abort(procs, p, IdleProc,
                      Err(404, "Owner profile not found. Please create profile first."))
           ELSE LET d == OwnerUpdateDecide(email, fullName, ptoken, identity[i], profile[i])
                    r == [procs[p] EXCEPT
                            !.email = IF d.wantsEmail THEN Trim(email) ELSE Absent,
                            !.fullName = IF fullName \notin {Absent, Null}
                                         THEN Trim(fullName) ELSE Absent,
                            !.phone = IF d.wantsPhone THEN d.phone ELSE AbsentPhone,
                            !.isActive = identity[i].isActive, !.hasProfile = TRUE,
                            !.v0 = identity[i].emailVerifyVersion,
                            !.fields = fields,
                            !.opt = OwnerStageOptional(fields, profile[i])]
                IN  IF d.err # NoResult THEN Abort(procs, p, IdleProc, d.err)
                    ELSE IF d.wantsPhone THEN Continue(procs, p, [r EXCEPT !.pc = "phoneCheck"])
                    ELSE IF r.opt.err # NoResult THEN Abort(procs, p, IdleProc, r.opt.err)
                    ELSE IF d.wantsEmail THEN Continue(procs, p, [r EXCEPT !.pc = "emailCheck"])
                    ELSE IF ~OwnerHasAdminChanges(r) /\ ~OwnerHasProfileChanges(r)
                    THEN Abort(procs, p, IdleProc, Err(400, "No changes provided to update"))
                    ELSE Continue(procs, p, [r EXCEPT !.pc = OwnerApplyPc(r)])

\* The calls that carry none of the optional profile fields.
UpdateOwnerProfileService_Load(p, i, email, fullName, ptoken) ==
    UpdateOwnerProfileService_LoadFields(p, i, email, fullName, ptoken, NoFields)

\* The phone pre-check of UpdateOwnerProfileService counting the owner's own row.
UpdateOwnerProfileService_PhoneCheck_OwnRow(p) ==
    LET r == proc[p]
    IN  /\ variant = "owner" /\ r.op = "update" /\ r.pc = "phoneCheck"
        /\ IF \E j \in Ids : profile[j].exists /\ profile[j].phone = r.phone
           THEN Abort(proc, p, r, Err(409, "Phone number already in use by another owner"))
           ELSE IF r.opt.err # NoResult THEN Abort(proc, p, r, r.opt.err)
           ELSE Continue(proc, p, [r EXCEPT !.pc = OwnerApplyPc(r)])

\* The phone pre-check of UpdateOwnerProfileService refusing a token that a
\* call whose reply is still pending has been granted.
UpdateOwnerProfileService_PhoneCheck_SingleUse(p) ==
    LET r == proc[p]
    IN  /\ variant = "owner" /\ r.op = "update" /\ r.pc = "phoneCheck"
        /\ IF \E q \in Procs \ {p} :
                  proc[q].pc = "done" /\ proc[q].result = Ok /\ proc[q].phone = r.phone
           THEN Abort(proc, p, r, PhoneNotVerified)
           ELSE IF \E j \in Ids \ {r.id} : profile[j].exists /\ profile[j].phone = r.phone
           THEN Abort(proc, p, r, Err(409, "Phone number already in use by another owner"))
           ELSE IF r.opt.err # NoResult THEN Abort(proc, p, r, r.opt.err)
           ELSE Continue(proc, p, [r EXCEPT !.pc = OwnerApplyPc(r)])

\* tx.adminProfile.findFirst({where: {phone, NOT: {adminId}}})
UpdateOwnerProfileService_PhoneCheck(p) ==
    LET r == proc[p]
    IN  /\ variant = "owner" /\ r.op = "update" /\ r.pc = "phoneCheck"
        /\ IF \E j \in Ids \ {r.id} : profile[j].exists /\ profile[j].phone = r.phone
           THEN Abort(proc, p, r, Err(409, "Phone number already in use by another owner"))
           ELSE IF r.opt.err # NoResult THEN Abort(proc, p, r, r.opt.err)
           ELSE Continue(proc, p, [r EXCEPT !.pc = OwnerApplyPc(r)])

\* The email checks of UpdateOwnerProfileService without the lookup of the
\* new email among the other owners.
UpdateOwnerProfileService_EmailCheck_NoLookup(p) ==
    LET r == proc[p]
    IN  /\ variant = "owner" /\ r.op = "update" /\ r.pc = "emailCheck"
        /\ IF ~EmailFormatOk(r.email)
           THEN Abort(proc, p, r, Err(400, "Invalid email format"))
           ELSE IF ~r.isActive
           THEN Abort(proc, p, r, Err(403, "Cannot update email. Account must be active to change email address"))
           ELSE Continue(proc, p, [r EXCEPT !.pc = "bump"])

\* The email format check, tx.admin.findFirst({where: {email, NOT: {id}}})
\* and the isActive check.
UpdateOwnerProfileService_EmailCheck(p) ==
    LET r == proc[p]
    IN  /\ variant = "owner" /\ r.op = "update" /\ r.pc = "emailCheck"
        /\ IF ~EmailFormatOk(r.email)
           THEN Abort(proc, p, r, Err(400, "Invalid email format"))
           ELSE IF \E j \in Ids \ {r.id} : identity[j].email = r.email
           THEN Abort(proc, p, r, Err(409, "Email already in use"))
           ELSE IF ~r.isActive
           THEN Abort(proc, p, r, Err(403, "Cannot update email. Account must be active to change email address"))
           ELSE Continue(proc, p, [r EXCEPT !.pc = "bump"])

\* The version bump of UpdateOwnerProfileService incrementing by two.
UpdateOwnerProfileService_BumpVersion_ByTwo(p) ==
    LET r == proc[p]
        updatedForVersion == [ViewI(r) EXCEPT !.emailVerifyVersion = @ + 2]
        token == emailChangeToken(r.id, r.email, updatedForVersion.email,
                                  updatedForVersion.emailVerifyVersion)
    IN  /\ variant = "owner" /\ r.op = "update" /\ r.pc = "bump"
        /\ ~IdentityLockedByOther(p, r.id)
        /\ Continue(proc, p, [r EXCEPT !.lockI = TRUE, !.rowI = updatedForVersion,
                                       !.link = token, !.pc = OwnerApplyPc(r)])

\* The version bump of UpdateOwnerProfileService also storing the new email.
UpdateOwnerProfileService_BumpVersion_WritesEmail(p) ==
    LET r == proc[p]
        updatedForVersion == [ViewI(r) EXCEPT !.emailVerifyVersion = @ + 1]
        token == emailChangeToken(r.id, r.email, updatedForVersion.email,
                                  updatedForVersion.emailVerifyVersion)
    IN  /\ variant = "owner" /\ r.op = "update" /\ r.pc = "bump"
        /\ ~IdentityLockedByOther(p, r.id)
        /\ Continue(proc, p, [r EXCEPT !.lockI = TRUE,
                                       !.rowI = [updatedForVersion EXCEPT !.email = r.email],
                                       !.link = token, !.pc = OwnerApplyPc(r)])

\* The version bump of UpdateOwnerProfileService writing the version the
\* call loaded plus one instead of incrementing the row.
UpdateOwnerProfileService_BumpVersion_FromLoaded(p) ==
    LET r == proc[p]
        updatedForVersion == [ViewI(r) EXCEPT !.emailVerifyVersion = r.v0 + 1]
        token == emailChangeToken(r.id, r.email, updatedForVersion.email,
                                  updatedForVersion.emailVerifyVersion)
    IN  /\ variant = "owner" /\ r.op = "update" /\ r.pc = "bump"
        /\ ~IdentityLockedByOther(p, r.id)
        /\ Continue(proc, p, [r EXCEPT !.lockI = TRUE, !.rowI = updatedForVersion,
                                       !.link = token, !.pc = OwnerApplyPc(r)])

\* tx.admin.update({data: {emailVerifyVersion: {increment: 1}}}) and the
\* token minted from the row the update returns.
UpdateOwnerProfileService_BumpVersion(p) ==
    LET r == proc[p]
        updatedForVersion == [ViewI(r) EXCEPT !.emailVerifyVersion = @ + 1]
        token == emailChangeToken(r.id, r.email, updatedForVersion.email,
                                  updatedForVersion.emailVerifyVersion)
    IN  /\ variant = "owner" /\ r.op = "update" /\ r.pc = "bump"
        /\ ~IdentityLockedByOther(p, r.id)
        /\ Continue(proc, p, [r EXCEPT !.lockI = TRUE, !.rowI = updatedForVersion,
                                       !.link = token, !.pc = OwnerApplyPc(r)])

\* tx.admin.update({data: adminUpdateData})
UpdateOwnerProfileService_ApplyAdmin(p) ==
    LET r == proc[p]
    IN  /\ variant = "owner" /\ r.op = "update" /\ r.pc = "applyAdmin"
        /\ ~IdentityLockedByOther(p, r.id)
        /\ Continue(proc, p, [r EXCEPT !.lockI = TRUE,
                                       !.rowI = [ViewI(r) EXCEPT !.fullName = r.fullName],
                                       !.pc = IF OwnerHasProfileChanges(r)
                                              THEN "applyProfile" ELSE "commit"])

\* The profile write of UpdateOwnerProfileService on a table without the
\* unique index on phone.
UpdateOwnerProfileService_ApplyProfile_NoIndex(p) ==
    LET r == proc[p]
    IN  /\ variant = "owner" /\ r.op = "update" /\ r.pc = "applyProfile"
        /\ ~ProfileLockedByOther(p, r.id)
        /\ Continue(proc, p, [r EXCEPT !.lockP = TRUE,
                                       !.rowP = adminProfileUpdateData(r, ViewP(r)),
                                       !.pc = "commit"])

\* tx.adminProfile.update({data: adminProfileUpdateData}); a violated unique
\* index raises P2002, which the catch block maps to a 409.
UpdateOwnerProfileService_ApplyProfile(p) ==
    LET r == proc[p]
    IN  /\ variant = "owner" /\ r.op = "update" /\ r.pc = "applyProfile"
        /\ ~ProfileLockedByOther(p, r.id)
        /\ (r.phone \notin {AbsentPhone, ViewP(r).phone} => ~PhoneIndexWait(p, r.id, r.phone))
        /\ IF r.phone \notin {AbsentPhone, ViewP(r).phone} /\ PhoneIndexViolation(r.id, r.phone)
           THEN Abort(proc, p, r, Err(409, "Phone number already in use"))
           ELSE IF /\ r.opt.gstNumber \notin {AbsentPhone, NullPhone, ViewP(r).gstNumber}
                   /\ GstIndexViolation(r.id, r.opt.gstNumber)
           THEN Abort(proc, p, r, Err(409, "GST number is already linked to another profile"))
           ELSE Continue(proc, p, [r EXCEPT !.lockP = TRUE,
                                           !.rowP = adminProfileUpdateData(r, ViewP(r)),
                                           !.pc = "commit"])

\* The re-read of the owner and the return of the transaction callback.
UpdateOwnerProfileService_Commit(p) ==
    LET r == proc[p]
    IN  /\ variant = "owner" /\ r.op = "update" /\ r.pc = "commit"
        /\ Commit(p, r)

\* ------------------------------------------------------------ owner confirm
\* Presentations of an email-change token: as issued, after its expiry, or
\* with a signature that does not verify.
TokenSigs == {"ok", "expired", "bad"}

StaleLink == Err(400, "This email change link is no longer valid. Please request a new link")
EmailMismatch == Err(400, "Email has already been changed or does not match the email change link")

\* verifyEmailChangeTokenService without its version check.
verifyEmailChangeTokenService_Load_NoVersionCheck(p, t, sig) ==
    LET r0 == [IdleProc EXCEPT !.op = "confirm", !.pc = "load", !.id = t.id, !.etoken = t]
        procs == Started(p, r0)
        r == [procs[p] EXCEPT !.v0 = identity[t.id].emailVerifyVersion]
    IN  /\ variant = "owner"
        /\ CanStart(p)
        /\ (sig = "ok" /\ t.id \in Ids /\ identity[t.id].emailVerifyVersion = t.version
               => CanBump(p, t.id))
        /\ IF sig = "expired" THEN Abort(procs, p, IdleProc, Err(401, "Token expired"))
           ELSE IF sig # "ok" THEN Abort(procs, p, IdleProc, Err(401, "Invalid token"))
           ELSE IF t.id \notin Ids THEN Abort(procs, p, IdleProc, Err(404, "Owner not found"))
           ELSE IF identity[t.id].email # t.oldEmail THEN Abort(procs, p, r, EmailMismatch)
           ELSE Continue(procs, p, [r EXCEPT !.pc = "emailCheck"])

\* verifyEmailChangeTokenService refusing only tokens newer than the row.
verifyEmailChangeTokenService_Load_AcceptsOlder(p, t, sig) ==
    LET r0 == [IdleProc EXCEPT !.op = "confirm", !.pc = "load", !.id = t.id, !.etoken = t]
        procs == Started(p, r0)
        r == [procs[p] EXCEPT !.v0 = identity[t.id].emailVerifyVersion]
    IN  /\ variant = "owner"
        /\ CanStart(p)
        /\ (sig = "ok" /\ t.id \in Ids /\ identity[t.id].emailVerifyVersion = t.version
               => CanBump(p, t.id))
        /\ IF sig = "expired" THEN Abort(procs, p, IdleProc, Err(401, "Token expired"))
           ELSE IF sig # "ok" THEN Abort(procs, p, IdleProc, Err(401, "Invalid token"))
           ELSE IF t.id \notin Ids THEN Abort(procs, p, IdleProc, Err(404, "Owner not found"))
           ELSE IF identity[t.id].emailVerifyVersion < t.version THEN Abort(procs, p, r, StaleLink)
           ELSE IF identity[t.id].email # t.oldEmail THEN Abort(procs, p, r, EmailMismatch)
           ELSE Continue(procs, p, [r EXCEPT !.pc = "emailCheck"])

\* verifyEmailChangeTokenService comparing the old email before the version.
verifyEmailChangeTokenService_Load_MismatchFirst(p, t, sig) ==
    LET r0 == [IdleProc EXCEPT !.op = "confirm", !.pc = "load", !.id = t.id, !.etoken = t]
        procs == Started(p, r0)
        r == [procs[p] EXCEPT !.v0 = identity[t.id].emailVerifyVersion]
    IN  /\ variant = "owner"
        /\ CanStart(p)
        /\ (sig = "ok" /\ t.id \in Ids /\ identity[t.id].emailVerifyVersion = t.version
               => CanBump(p, t.id))
        /\ IF sig = "expired" THEN Abort(procs, p, IdleProc, Err(401, "Token expired"))
           ELSE IF sig # "ok" THEN Abort(procs, p, IdleProc, Err(401, "Invalid token"))
           ELSE IF t.id \notin Ids THEN Abort(procs, p, IdleProc, Err(404, "Owner not found"))
           ELSE IF identity[t.id].email # t.oldEmail THEN Abort(procs, p, r, EmailMismatch)
           ELSE IF identity[t.id].emailVerifyVersion # t.version THEN Abort(procs, p, r, StaleLink)
           ELSE Continue(procs, p, [r EXCEPT !.pc = "emailCheck"])

\* jwt.verify, the payload check, tx.admin.findUnique and the version and
\* old-email checks of verifyEmailChangeTokenService.
verifyEmailChangeTokenService_Load(p, t, sig) ==
    LET r0 == [IdleProc EXCEPT !.op = "confirm", !.pc = "load", !.id = t.id, !.etoken = t]
        procs == Started(p, r0)
        r == [procs[p] EXCEPT !.v0 = identity[t.id].emailVerifyVersion]
    IN  /\ variant = "owner"
        /\ CanStart(p)
        /\ (sig = "ok" /\ t.id \in Ids /\ identity[t.id].emailVerifyVersion = t.version
               => CanBump(p, t.id))
        /\ IF sig = "expired" THEN Abort(procs, p, IdleProc, Err(401, "Token expired"))
           ELSE IF sig # "ok" THEN Abort(procs, p, IdleProc, Err(401, "Invalid token"))
           ELSE IF t.id \notin Ids THEN Abort(procs, p, IdleProc, Err(404, "Owner not found"))
           ELSE IF identity[t.id].emailVerifyVersion # t.version THEN Abort(procs, p, r, StaleLink)
           ELSE IF identity[t.id].email # t.oldEmail THEN Abort(procs, p, r, EmailMismatch)
           ELSE Continue(procs, p, [r EXCEPT !.pc = "emailCheck"])

\* tx.admin.findFirst({where: {email: newEmail, NOT: {id}}})
verifyEmailChangeTokenService_EmailCheck(p) ==
    LET r == proc[p]
    IN  /\ variant = "owner" /\ r.op = "confirm" /\ r.pc = "emailCheck"
        /\ IF \E j \in Ids \ {r.id} : identity[j].email = r.etoken.newEmail
           THEN Abort(proc, p, r, Err(409, "Email already in use by another owner. Please use a different email"))
           ELSE Continue(proc, p, [r EXCEPT !.pc = "write"])

\* The write of verifyEmailChangeTokenService leaving the version as it is.
verifyEmailChangeTokenService_Update_NoIncrement(p) ==
    LET r == proc[p]
    IN  /\ variant = "owner" /\ r.op = "confirm" /\ r.pc = "write"
        /\ ~IdentityLockedByOther(p, r.id)
        /\ (ViewI(r).email # r.etoken.newEmail => ~EmailIndexWait(p, r.id, r.etoken.newEmail))
        /\ IF ViewI(r).email # r.etoken.newEmail /\ EmailIndexViolation(r.id, r.etoken.newEmail)
           THEN Abort(proc, p, r, Err(409, "Email already in use"))
           ELSE Continue(proc, p,
                    [r EXCEPT !.lockI = TRUE,
                              !.rowI = [ViewI(r) EXCEPT !.email = r.etoken.newEmail],
                              !.pc = "commit"])

\* The write of verifyEmailChangeTokenService on a table without the unique
\* index on email.
verifyEmailChangeTokenService_Update_NoIndex(p) ==
    LET r == proc[p]
    IN  /\ variant = "owner" /\ r.op = "confirm" /\ r.pc = "write"
        /\ ~IdentityLockedByOther(p, r.id)
        /\ Continue(proc, p,
                    [r EXCEPT !.lockI = TRUE,
                              !.rowI = [ViewI(r) EXCEPT !.email = r.etoken.newEmail,
                                                        !.emailVerifyVersion = @ + 1],
                              !.pc = "commit"])

\* tx.admin.update({data: {email: newEmail, emailVerifyVersion: {increment: 1}}});
\* P2002 is mapped by the catch block.
verifyEmailChangeTokenService_Update(p) ==
    LET r == proc[p]
    IN  /\ variant = "owner" /\ r.op = "confirm" /\ r.pc = "write"
        /\ ~IdentityLockedByOther(p, r.id)
        /\ (ViewI(r).email # r.etoken.newEmail => ~EmailIndexWait(p, r.id, r.etoken.newEmail))
        /\ IF ViewI(r).email # r.etoken.newEmail /\ EmailIndexViolation(r.id, r.etoken.newEmail)
           THEN Abort(proc, p, r, Err(409, "Email already in use"))
           ELSE Continue(proc, p,
                    [r EXCEPT !.lockI = TRUE,
                              !.rowI = [ViewI(r) EXCEPT !.email = r.etoken.newEmail,
                                                        !.emailVerifyVersion = @ + 1],
                              !.pc = "commit"])

\* The re-read of the owner and the return of the transaction callback.
verifyEmailChangeTokenService_Commit(p) ==
    LET r == proc[p]
    IN  /\ variant = "owner" /\ r.op = "confirm" /\ r.pc = "commit"
        /\ Commit(p, r)

\* ------------------------------------------------------------ customer update
CustomerEmailInputs == {Absent, ""} \cup Emails
CustomerNameInputs == {Absent, "Ravi"}
CustomerPhoneInputs == {AbsentPhone, NoPhone, PhA, PhB}

\* The customer's current phone: CustomerProfile?.phone ?? null.
CustomerCurrentPhone(prof) == IF prof.exists THEN prof.phone ELSE NullPhone

CustomerWantsEmailChange(email, customer) == email # Absent /\ email # customer.email
CustomerWantsPhoneChange(phone, prof) ==
    phone # AbsentPhone /\ phone # CustomerCurrentPhone(prof)

CustomerHasCustomerChanges(r) == r.fullName # Absent
CustomerHasProfileChanges(r) ==
    r.fullName # Absent \/ r.phone # AbsentPhone \/ r.opt.address # AbsentPhone

\* The statement that follows the staged writes of CustomerProfileUpdateService.
CustomerApplyPc(r) ==
    IF CustomerHasCustomerChanges(r) THEN "applyCustomer"
    ELSE IF CustomerHasProfileChanges(r) THEN "applyProfile"
    ELSE "commit"

\* tx.customer.findUnique({include: {CustomerProfile}}) and the checks up to
\* the first query that follows.
CustomerProfileUpdateService_LoadFields(p, i, email, fullName, phone, address) ==
    LET r0 == [IdleProc EXCEPT !.op = "update", !.pc = "load", !.id = i]
        procs == Started(p, r0)
    IN  /\ variant = "customer"
        /\ CanStart(p)
        /\ (email # Absent => CanBump(p, i) /\ CanIssue(p))
        /\ IF i \notin Ids
           THEN Abort(procs, p, IdleProc, Err(404, "Customer not found"))
           ELSE LET wantsEmailChange == CustomerWantsEmailChange(email, identity[i])
                    wantsPhoneChange == CustomerWantsPhoneChange(phone, profile[i])
                    r == [procs[p] EXCEPT
                            !.email = IF wantsEmailChange THEN email ELSE Absent,
                            !.fullName = fullName,
                            !.phone = IF wantsPhoneChange THEN phone ELSE AbsentPhone,
                            !.isActive = identity[i].isActive,
                            !.hasProfile = profile[i].exists,
                            !.v0 = identity[i].emailVerifyVersion,
                            !.fields = [NoFields EXCEPT !.address = address],
                            !.opt = [NoOptional EXCEPT !.address = address]]
                IN  IF wantsEmailChange /\ wantsPhoneChange
                    THEN Abort(procs, p, IdleProc,
                               Err(400, "You can update either email or phone at a time, not both"))
                    ELSE IF wantsPhoneChange
                    THEN IF phone = NoPhone
                         THEN Abort(procs, p, IdleProc, Err(400, "Phone number is required"))
                         ELSE Continue(procs, p, [r EXCEPT !.pc = "phoneCheck"])
                    ELSE IF wantsEmailChange
                    THEN IF email = ""
                         THEN Abort(procs, p, IdleProc, Err(400, "Email is required"))
                         ELSE Continue(procs, p, [r EXCEPT !.pc = "emailCheck"])
                    ELSE IF ~CustomerHasCustomerChanges(r) /\ ~CustomerHasProfileChanges(r)
                    THEN Abort(procs, p, IdleProc, Err(400, "No changes provided to update"))
                    ELSE Continue(procs, p, [r EXCEPT !.pc = CustomerApplyPc(r)])

\* The calls that carry no address.
CustomerProfileUpdateService_Load(p, i, email, fullName, phone) ==
    CustomerProfileUpdateService_LoadFields(p, i, email, fullName, phone, AbsentPhone)

\* tx.customerProfile.findFirst({where: {phone, NOT: {customerId}}})
CustomerProfileUpdateService_PhoneCheck(p) ==
    LET r == proc[p]
    IN  /\ variant = "customer" /\ r.op = "update" /\ r.pc = "phoneCheck"
        /\ IF \E j \in Ids \ {r.id} : profile[j].exists /\ profile[j].phone = r.phone
           THEN Abort(proc, p, r, Err(409, "Phone number already in use by another customer"))
           ELSE Continue(proc, p, [r EXCEPT !.pc = CustomerApplyPc(r)])

\* The first email lookup of CustomerProfileUpdateService finding nothing.
CustomerProfileUpdateService_EmailCheck_NoLookup(p) ==
    LET r == proc[p]
    IN  /\ variant = "customer" /\ r.op = "update" /\ r.pc = "emailCheck"
        /\ Continue(proc, p, [r EXCEPT !.found = FALSE, !.pc = "emailCheckProfile"])

\* tx.customer.findFirst({where: {OR: [{email}, {pendingEmail: email}], NOT: {id}}})
CustomerProfileUpdateService_EmailCheck(p) ==
    LET r == proc[p]
    IN  /\ variant = "customer" /\ r.op = "update" /\ r.pc = "emailCheck"
        /\ Continue(proc, p,
              [r EXCEPT !.found = \E j \in Ids \ {r.id} :
                                      identity[j].email = r.email \/ identity[j].pendingEmail = r.email,
                        !.pc = "emailCheckProfile"])

\* The second email lookup of CustomerProfileUpdateService without the
\* isActive check that follows it.
CustomerProfileUpdateService_EmailCheckProfile_NoActiveCheck(p) ==
    LET r == proc[p]
        emailExistsInProfile == \E j \in Ids \ {r.id} : profile[j].exists /\ profile[j].email = r.email
    IN  /\ variant = "customer" /\ r.op = "update" /\ r.pc = "emailCheckProfile"
        /\ IF r.found \/ emailExistsInProfile
           THEN Abort(proc, p, r, Err(409, "Email already in use by another customer"))
           ELSE Continue(proc, p, [r EXCEPT !.pc = "bump"])

\* The second email lookup of CustomerProfileUpdateService testing isActive
\* before the conflict.
CustomerProfileUpdateService_EmailCheckProfile_ActiveFirst(p) ==
    LET r == proc[p]
        emailExistsInProfile == \E j \in Ids \ {r.id} : profile[j].exists /\ profile[j].email = r.email
    IN  /\ variant = "customer" /\ r.op = "update" /\ r.pc = "emailCheckProfile"
        /\ IF ~r.isActive
           THEN Abort(proc, p, r, Err(403, "Cannot update email. Account must be active to change email address"))
           ELSE IF r.found \/ emailExistsInProfile
           THEN Abort(proc, p, r, Err(409, "Email already in use by another customer"))
           ELSE Continue(proc, p, [r EXCEPT !.pc = "bump"])

\* tx.customerProfile.findFirst({where: {email, NOT: {customerId}}}), the
\* conflict raised from either lookup, and the isActive check.
CustomerProfileUpdateService_EmailCheckProfile(p) ==
    LET r == proc[p]
        emailExistsInProfile == \E j \in Ids \ {r.id} : profile[j].exists /\ profile[j].email = r.email
    IN  /\ variant = "customer" /\ r.op = "update" /\ r.pc = "emailCheckProfile"
        /\ IF r.found \/ emailExistsInProfile
           THEN Abort(proc, p, r, Err(409, "Email already in use by another customer"))
           ELSE IF ~r.isActive
           THEN Abort(proc, p, r, Err(403, "Cannot update email. Account must be active to change email address"))
           ELSE Continue(proc, p, [r EXCEPT !.pc = "bump"])

\* The version bump of CustomerProfileUpdateService minting the token with
\* the email of the request as oldEmail.
CustomerProfileUpdateService_BumpVersion_ClientOldEmail(p) ==
    LET r == proc[p]
        updatedForVersion == [ViewI(r) EXCEPT !.emailVerifyVersion = @ + 1]
        token == emailChangeToken(r.id, r.email, r.email,
                                  updatedForVersion.emailVerifyVersion)
    IN  /\ variant = "customer" /\ r.op = "update" /\ r.pc = "bump"
        /\ ~IdentityLockedByOther(p, r.id)
        /\ Continue(proc, p, [r EXCEPT !.lockI = TRUE, !.rowI = updatedForVersion,
                                       !.link = token, !.pc = CustomerApplyPc(r)])

\* tx.customer.update({data: {emailVerifyVersion: {increment: 1}}}) and the
\* token minted from the row the update returns.
CustomerProfileUpdateService_BumpVersion(p) ==
    LET r == proc[p]
        updatedForVersion == [ViewI(r) EXCEPT !.emailVerifyVersion = @ + 1]
        token == emailChangeToken(r.id, r.email, updatedForVersion.email,
                                  updatedForVersion.emailVerifyVersion)
    IN  /\ variant = "customer" /\ r.op = "update" /\ r.pc = "bump"
        /\ ~IdentityLockedByOther(p, r.id)
        /\ Continue(proc, p, [r EXCEPT !.lockI = TRUE, !.rowI = updatedForVersion,
                                       !.link = token, !.pc = CustomerApplyPc(r)])

\* tx.customer.update({data: customerUpdateData})
CustomerProfileUpdateService_ApplyCustomer(p) ==
    LET r == proc[p]
    IN  /\ variant = "customer" /\ r.op = "update" /\ r.pc = "applyCustomer"
        /\ ~IdentityLockedByOther(p, r.id)
        /\ Continue(proc, p, [r EXCEPT !.lockI = TRUE,
                                       !.rowI = [ViewI(r) EXCEPT !.fullName = r.fullName],
                                       !.pc = IF CustomerHasProfileChanges(r)
                                              THEN "applyProfile" ELSE "commit"])

\* tx.customerProfile.update({data: profileUpdateData}) when the profile was
\* loaded, else the 404; P2002 is mapped by the catch block.
CustomerProfileUpdateService_ApplyProfile(p) ==
    LET r == proc[p]
        cur == ViewP(r)
        newRow == [cur EXCEPT !.fullName = IF r.fullName # Absent THEN r.fullName ELSE @,
                              !.phone = IF r.phone # AbsentPhone THEN r.phone ELSE @,
                              !.address = IF r.opt.address # AbsentPhone
                                          THEN r.opt.address ELSE @]
    IN  /\ variant = "customer" /\ r.op = "update" /\ r.pc = "applyProfile"
        /\ IF ~r.hasProfile
           THEN Abort(proc, p, r, Err(404, "Customer profile not found. Please create profile first."))
           ELSE /\ ~ProfileLockedByOther(p, r.id)
                /\ (newRow.phone # cur.phone => ~PhoneIndexWait(p, r.id, newRow.phone))
                /\ IF newRow.phone # cur.phone /\ PhoneIndexViolation(r.id, newRow.phone)
                   THEN Abort(proc, p, r, Err(409, "Phone number already in use"))
                   ELSE Continue(proc, p, [r EXCEPT !.lockP = TRUE, !.rowP = newRow,
                                                   !.pc = "commit"])

\* The re-read of the customer and the return of the transaction callback.
CustomerProfileUpdateService_Commit(p) ==
    LET r == proc[p]
    IN  /\ variant = "customer" /\ r.op = "update" /\ r.pc = "commit"
        /\ Commit(p, r)


\* VerifyCustomerEmailChangeService taking the payload of a token without
\* verifying its signature and expiry.
VerifyCustomerEmailChangeService_Load_NoSignatureCheck(p, t, sig) ==
    LET r0 == [IdleProc EXCEPT !.op = "confirm", !.pc = "load", !.id = t.id, !.etoken = t]
        procs == Started(p, r0)
        r == [procs[p] EXCEPT !.v0 = identity[t.id].emailVerifyVersion]
    IN  /\ variant = "customer"
        /\ CanStart(p)
        /\ (identity[t.id].emailVerifyVersion = t.version => CanBump(p, t.id))
        /\ IF t.id \notin Ids THEN Abort(procs, p, IdleProc, Err(404, "Customer not found"))
           ELSE IF identity[t.id].emailVerifyVersion # t.version THEN Abort(procs, p, r, StaleLink)
           ELSE IF identity[t.id].email # t.oldEmail THEN Abort(procs, p, r, EmailMismatch)
           ELSE Continue(procs, p, [r EXCEPT !.pc = "emailCheck"])

\* VerifyCustomerEmailChangeService without its version check.
VerifyCustomerEmailChangeService_Load_NoVersionCheck(p, t, sig) ==
    LET r0 == [IdleProc EXCEPT !.op = "confirm", !.pc = "load", !.id = t.id, !.etoken = t]
        procs == Started(p, r0)
        r == [procs[p] EXCEPT !.v0 = identity[t.id].emailVerifyVersion]
    IN  /\ variant = "customer"
        /\ CanStart(p)
        /\ (sig = "ok" => CanBump(p, t.id))
        /\ IF sig # "ok"
           THEN Abort(procs, p, IdleProc,
                      Err(400, "Invalid or expired email change token. Please request a new link"))
           ELSE IF t.id \notin Ids THEN Abort(procs, p, IdleProc, Err(404, "Customer not found"))
           ELSE IF identity[t.id].email # t.oldEmail THEN Abort(procs, p, r, EmailMismatch)
           ELSE Continue(procs, p, [r EXCEPT !.pc = "emailCheck"])

\* ------------------------------------------------------------ customer confirm
\* emailChangeToken(token), the payload check, tx.customer.findUnique and
\* the version and old-email checks of VerifyCustomerEmailChangeService.
VerifyCustomerEmailChangeService_Load(p, t, sig) ==
    LET r0 == [IdleProc EXCEPT !.op = "confirm", !.pc = "load", !.id = t.id, !.etoken = t]
        procs == Started(p, r0)
        r == [procs[p] EXCEPT !.v0 = identity[t.id].emailVerifyVersion]
    IN  /\ variant = "customer"
        /\ CanStart(p)
        /\ (sig = "ok" /\ t.id \in Ids /\ identity[t.id].emailVerifyVersion = t.version
               => CanBump(p, t.id))
        /\ IF sig # "ok"
           THEN Abort(procs, p, IdleProc,
                      Err(400, "Invalid or expired email change token. Please request a new link"))
           ELSE IF t.id \notin Ids THEN Abort(procs, p, IdleProc, Err(404, "Customer not found"))
           ELSE IF identity[t.id].emailVerifyVersion # t.version THEN Abort(procs, p, r, StaleLink)
           ELSE IF identity[t.id].email # t.oldEmail THEN Abort(procs, p, r, EmailMismatch)
           ELSE Continue(procs, p, [r EXCEPT !.pc = "emailCheck"])

\* tx.customer.findFirst({where: {OR: [{email: newEmail}, {pendingEmail: newEmail}], NOT: {id}}})
VerifyCustomerEmailChangeService_EmailCheck(p) ==
    LET r == proc[p]
    IN  /\ variant = "customer" /\ r.op = "confirm" /\ r.pc = "emailCheck"
        /\ Continue(proc, p,
              [r EXCEPT !.found = \E j \in Ids \ {r.id} :
                                      \/ identity[j].email = r.etoken.newEmail
                                      \/ identity[j].pendingEmail = r.etoken.newEmail,
                        !.pc = "emailCheckProfile"])

\* tx.customerProfile.findFirst({where: {email: newEmail, NOT: {customerId}}})
\* and the conflict raised from either lookup.
VerifyCustomerEmailChangeService_EmailCheckProfile(p) ==
    LET r == proc[p]
        emailExistsInProfile ==
            \E j \in Ids \ {r.id} : profile[j].exists /\ profile[j].email = r.etoken.newEmail
    IN  /\ variant = "customer" /\ r.op = "confirm" /\ r.pc = "emailCheckProfile"
        /\ IF r.found \/ emailExistsInProfile
           THEN Abort(proc, p, r,
                      Err(409, "Email already in use by another customer. Please use a different email"))
           ELSE Continue(proc, p, [r EXCEPT !.pc = "write"])

\* The write of VerifyCustomerEmailChangeService without a unique index on
\* Customer.email.
VerifyCustomerEmailChangeService_Update_NoIndex(p) ==
    LET r == proc[p]
    IN  /\ variant = "customer" /\ r.op = "confirm" /\ r.pc = "write"
        /\ ~IdentityLockedByOther(p, r.id)
        /\ Continue(proc, p,
              [r EXCEPT !.lockI = TRUE,
                        !.rowI = [ViewI(r) EXCEPT !.email = r.etoken.newEmail,
                                                  !.pendingEmail = Null,
                                                  !.emailVerifyVersion = @ + 1],
                        !.pc = IF ViewP(r).exists THEN "writeProfile" ELSE "commit"])

\* tx.customer.update({data: {email: newEmail, pendingEmail: null,
\* emailVerifyVersion: {increment: 1}}, include: {CustomerProfile}}).
VerifyCustomerEmailChangeService_Update(p) ==
    LET r == proc[p]
    IN  /\ variant = "customer" /\ r.op = "confirm" /\ r.pc = "write"
        /\ ~IdentityLockedByOther(p, r.id)
        /\ (ViewI(r).email # r.etoken.newEmail => ~EmailIndexWait(p, r.id, r.etoken.newEmail))
        /\ IF ViewI(r).email # r.etoken.newEmail /\ EmailIndexViolation(r.id, r.etoken.newEmail)
           THEN Abort(proc, p, r, Err(409, "Email already in use"))
           ELSE Continue(proc, p,
                    [r EXCEPT !.lockI = TRUE,
                              !.rowI = [ViewI(r) EXCEPT !.email = r.etoken.newEmail,
                                                        !.pendingEmail = Null,
                                                        !.emailVerifyVersion = @ + 1],
                              !.pc = IF ViewP(r).exists THEN "writeProfile" ELSE "commit"])

\* VerifyCustomerEmailChangeService leaving CustomerProfile.email as it is.
VerifyCustomerEmailChangeService_UpdateProfile_NoSync(p) ==
    LET r == proc[p]
    IN  /\ variant = "customer" /\ r.op = "confirm" /\ r.pc = "writeProfile"
        /\ ~ProfileLockedByOther(p, r.id)
        /\ Continue(proc, p, [r EXCEPT !.lockP = TRUE, !.rowP = ViewP(r), !.pc = "commit"])

\* tx.customerProfile.update({data: {email: newEmail}})
VerifyCustomerEmailChangeService_UpdateProfile(p) ==
    LET r == proc[p]
    IN  /\ variant = "customer" /\ r.op = "confirm" /\ r.pc = "writeProfile"
        /\ ~ProfileLockedByOther(p, r.id)
        /\ Continue(proc, p, [r EXCEPT !.lockP = TRUE,
                                       !.rowP = [ViewP(r) EXCEPT !.email = r.etoken.newEmail],
                                       !.pc = "commit"])

\* The re-read of the customer and the return of the transaction callback.
VerifyCustomerEmailChangeService_Commit(p) ==
    LET r == proc[p]
    IN  /\ variant = "customer" /\ r.op = "confirm" /\ r.pc = "commit"
        /\ Commit(p, r)


\* ------------------------------------------------------------ owner create
\* The guards of OwnerProfileService that precede the transaction: the
\* verified phone, or the error thrown.
OwnerCreateDecide(ptoken) ==
    LET v == verifyPhoneVerificationToken(ptoken)
        rawPhone == TrimSeq(v.phone)
        phone == DigitsOnly(rawPhone)
        err ==
            IF ptoken = NoPhoneToken
            THEN Err(400, "Phone number is not verified - please verify first before completing the profile.")
            ELSE IF ~v.ok THEN v.err
            ELSE IF rawPhone = NoPhone
            THEN Err(400, "Phone number not found in verification token. Please re-verify your phone.")
            ELSE IF phone = NoPhone \/ Len(phone) < 7
            THEN Err(400, "Invalid phone number in verification token. Please re-verify your phone.")
            ELSE NoResult
    IN  [err |-> err, phone |-> phone]

\* The normalisation and validation of shortBio, the GST block and pincode
\* in OwnerProfileService: the values the insert will carry, and the error
\* thrown before the transaction.
OwnerCreateStage(in) ==
    LET isGstRegistered == in.isGstRegistered = "true"
        Text(f) == IF in[f] = AbsentPhone THEN NullPhone ELSE OptionalText(in[f])
        Final(f) == IF isGstRegistered THEN Text(f) ELSE NullPhone
        pincode == Text("pincode")
        normalizedPincode == SelectSeq(pincode, LAMBDA c : c # " ")
        err ==
            IF isGstRegistered /\ Final("gstNumber") = NullPhone
            THEN Err(400, "GST number is required when GST registration is enabled.")
            ELSE IF isGstRegistered /\ Final("gstLegalName") = NullPhone
            THEN Err(400, "GST legal name is required when GST registration is enabled.")
            ELSE IF isGstRegistered /\ Final("gstStateCode") = NullPhone
            THEN Err(400, "GST state code is required when GST registration is enabled.")
            ELSE IF isGstRegistered /\ Len(Final("gstNumber")) # 15
            THEN Err(400, "GST number must be exactly 15 characters as per GSTIN format.")
            ELSE IF /\ isGstRegistered
                    /\ ~(/\ Len(Final("gstStateCode")) = 2
                         /\ \A k \in 1..2 : IsDigit(Final("gstStateCode")[k]))
            THEN Err(400, "GST state code must be a 2-digit numeric code.")
            ELSE IF /\ pincode # NullPhone
                    /\ ~(/\ \A k \in 1..Len(normalizedPincode) : IsDigit(normalizedPincode[k])
                         /\ Len(normalizedPincode) \in 4..10)
            THEN Err(400, "Pincode must be between 4 and 10 digits if provided.")
            ELSE NoResult
    IN  [err |-> err,
         shortBio |-> Text("shortBio"),
         isGstRegistered |-> IF isGstRegistered THEN "true" ELSE "false",
         gstNumber |-> Final("gstNumber"),
         gstLegalName |-> Final("gstLegalName"),
         gstStateCode |-> Final("gstStateCode"),
         gstBillingAddress |-> Final("gstBillingAddress"),
         pincode |-> IF pincode = NullPhone THEN NullPhone ELSE normalizedPincode,
         address |-> AbsentPhone]

\* The data of tx.adminProfile.create leaving gstLegalName out.
adminProfileCreateData_DropsLegalName(r) ==
    [NoProfileRow EXCEPT !.exists = TRUE, !.phone = r.phone,
                         !.shortBio = r.opt.shortBio,
                         !.isGstRegistered = r.opt.isGstRegistered = "true",
                         !.gstNumber = r.opt.gstNumber,
                         !.gstStateCode = r.opt.gstStateCode,
                         !.gstBillingAddress = r.opt.gstBillingAddress,
                         !.pincode = r.opt.pincode]

\* The data of tx.adminProfile.create in OwnerProfileService.
adminProfileCreateData(r) ==
    [NoProfileRow EXCEPT !.exists = TRUE, !.phone = r.phone,
                         !.shortBio = r.opt.shortBio,
                         !.isGstRegistered = r.opt.isGstRegistered = "true",
                         !.gstNumber = r.opt.gstNumber,
                         !.gstLegalName = r.opt.gstLegalName,
                         !.gstStateCode = r.opt.gstStateCode,
                         !.gstBillingAddress = r.opt.gstBillingAddress,
                         !.pincode = r.opt.pincode]

\* The pre-transaction guards and tx.admin.findUnique of OwnerProfileService.
OwnerProfileService_LoadFields(p, i, ptoken, fields) ==
    LET r0 == [IdleProc EXCEPT !.op = "create", !.pc = "load", !.id = i]
        procs == Started(p, r0)
        d == OwnerCreateDecide(ptoken)
        opt == OwnerCreateStage(fields)
    IN  /\ variant = "owner"
        /\ CanStart(p)
        /\ IF d.err # NoResult THEN Abort(procs, p, IdleProc, d.err)
           ELSE IF opt.err # NoResult THEN Abort(procs, p, IdleProc, opt.err)
           ELSE IF i \notin Ids THEN Abort(procs, p, IdleProc, Err(404, "Owner not found."))
           ELSE IF identity[i].isProfileComplete
           THEN Abort(procs, p, IdleProc, Err(409, "Profile is already completed."))
           ELSE Continue(procs, p, [procs[p] EXCEPT !.phone = d.phone, !.fields = fields,
                                                    !.opt = opt, !.pc = "profileCheck"])

\* The calls that carry none of the optional profile fields.
OwnerProfileService_Load(p, i, ptoken) == OwnerProfileService_LoadFields(p, i, ptoken, NoFields)

\* tx.adminProfile.findUnique({where: {adminId}})
OwnerProfileService_ProfileCheck(p) ==
    LET r == proc[p]
    IN  /\ variant = "owner" /\ r.op = "create" /\ r.pc = "profileCheck"
        /\ IF profile[r.id].exists
           THEN Abort(proc, p, r,
                      Err(409, "Profile already exists for this owner. Please edit the existing profile."))
           ELSE Continue(proc, p, [r EXCEPT !.pc = "phoneCheck"])

\* tx.adminProfile.findFirst({where: {phone}}) and, for a GST number,
\* tx.adminProfile.findFirst({where: {gstNumber}})
OwnerProfileService_PhoneCheck(p) ==
    LET r == proc[p]
    IN  /\ variant = "owner" /\ r.op = "create" /\ r.pc = "phoneCheck"
        /\ IF \E j \in Ids : profile[j].exists /\ profile[j].phone = r.phone
           THEN Abort(proc, p, r, Err(409, "Phone number is already in use."))
           ELSE IF /\ r.opt.gstNumber # NullPhone
                   /\ \E j \in Ids : profile[j].exists /\ profile[j].gstNumber = r.opt.gstNumber
           THEN Abort(proc, p, r, Err(409, "GST number is already linked to another profile."))
           ELSE Continue(proc, p, [r EXCEPT !.pc = "create"])

\* The unique indexes an insert of a profile row for identity i with phone
\* ph violates.
InsertViolations(i, ph) ==
    (IF profile[i].exists THEN {"identityId"} ELSE {})
      \cup (IF PhoneIndexViolation(i, ph) THEN {"phone"} ELSE {})

\* tx.adminProfile.create without the unique index on adminId.
OwnerProfileService_Create_NoIdentityIndex(p) ==
    LET r == proc[p]
    IN  /\ variant = "owner" /\ r.op = "create" /\ r.pc = "create"
        /\ ~PhoneIndexWait(p, r.id, r.phone)
        /\ IF PhoneIndexViolation(r.id, r.phone)
           THEN Abort(proc, p, r, Err(409, "Phone number is already in use."))
           ELSE Continue(proc, p,
                    [r EXCEPT !.lockP = TRUE,
                              !.rowP = adminProfileCreateData(r),
                              !.pc = "markComplete"])

\* tx.adminProfile.create; P2002 is mapped by its target in the catch block.
OwnerProfileService_Create(p) ==
    LET r == proc[p]
    IN  /\ variant = "owner" /\ r.op = "create" /\ r.pc = "create"
        /\ ~ProfileLockedByOther(p, r.id)
        /\ ~PhoneIndexWait(p, r.id, r.phone)
        /\ IF InsertViolations(r.id, r.phone) # {}
           THEN \E target \in InsertViolations(r.id, r.phone) :
                    Abort(proc, p, r,
                          IF target = "phone"
                          THEN Err(409, "Phone number is already in use.")
                          ELSE Err(409, "Profile already exists for this owner. Please edit the existing profile."))
           ELSE Continue(proc, p,
                    [r EXCEPT !.lockP = TRUE,
                              !.rowP = adminProfileCreateData(r),
                              !.pc = "markComplete"])

\* tx.admin.update({data: {isProfileComplete: true, isActive: true}})
OwnerProfileService_MarkComplete(p) ==
    LET r == proc[p]
    IN  /\ variant = "owner" /\ r.op = "create" /\ r.pc = "markComplete"
        /\ ~IdentityLockedByOther(p, r.id)
        /\ Continue(proc, p, [r EXCEPT !.lockI = TRUE,
                                       !.rowI = [ViewI(r) EXCEPT !.isProfileComplete = TRUE,
                                                                 !.isActive = TRUE],
                                       !.pc = "commit"])

\* The return of the transaction callback.
OwnerProfileService_Commit(p) ==
    LET r == proc[p]
    IN  /\ variant = "owner" /\ r.op = "create" /\ r.pc = "commit"
        /\ Commit(p, r)

\* decodePhoneVerificationToken answering an expired token as an invalid one.
decodePhoneVerificationToken_ExpiredAsInvalid(token) ==
    IF ~PHONE_VERIFICATION_SECRET
    THEN [ok |-> FALSE, isVerified |-> FALSE, phone |-> NoPhone,
          err |-> Err(500, "Phone verification is temporarily unavailable. Please try again later.")]
    ELSE IF token.sig # "ok"
    THEN [ok |-> FALSE, isVerified |-> FALSE, phone |-> NoPhone,
          err |-> Err(400, "Invalid phone verification token.")]
    ELSE [ok |-> TRUE, isVerified |-> token.isVerified, phone |-> TrimSeq(token.phone),
          err |-> NoResult]

\* ------------------------------------------------------------ customer create
\* decodePhoneVerificationToken(token) of CustomerProfileService.ts.
decodePhoneVerificationToken(token) ==
    IF ~PHONE_VERIFICATION_SECRET
    THEN [ok |-> FALSE, isVerified |-> FALSE, phone |-> NoPhone,
          err |-> Err(500, "Phone verification is temporarily unavailable. Please try again later.")]
    ELSE IF token.sig = "expired"
    THEN [ok |-> FALSE, isVerified |-> FALSE, phone |-> NoPhone,
          err |-> Err(400, "Phone verification token has expired. Please verify your phone number again.")]
    ELSE IF token.sig # "ok"
    THEN [ok |-> FALSE, isVerified |-> FALSE, phone |-> NoPhone,
          err |-> Err(400, "Invalid phone verification token.")]
    ELSE [ok |-> TRUE, isVerified |-> token.isVerified, phone |-> TrimSeq(token.phone),
          err |-> NoResult]

\* The guards of CustomerProfileService that precede the transaction.
CustomerCreateDecide(ptoken) ==
    LET v == decodePhoneVerificationToken(ptoken)
        normalizedPhone == TrimSeq(v.phone)
        err ==
            IF ptoken = NoPhoneToken
            THEN Err(400, "Phone number not verified. verificationToken missing or invalid.")
            ELSE IF ~v.ok THEN v.err
            ELSE IF ~v.isVerified
            THEN Err(400, "Phone number not verified. Verification required.")
            ELSE IF v.phone = NoPhone
            THEN Err(400, "Phone number not verified. Invalid phone in token.")
            ELSE NoResult
    IN  [err |-> err, phone |-> normalizedPhone]

\* The pre-transaction guards and tx.customer.findUnique of CustomerProfileService.
CustomerProfileService_Load(p, i, ptoken) ==
    LET r0 == [IdleProc EXCEPT !.op = "create", !.pc = "load", !.id = i]
        procs == Started(p, r0)
        d == CustomerCreateDecide(ptoken)
    IN  /\ variant = "customer"
        /\ CanStart(p)
        /\ IF d.err # NoResult THEN Abort(procs, p, IdleProc, d.err)
           ELSE IF i \notin Ids THEN Abort(procs, p, IdleProc, Err(404, "Customer not found."))
           ELSE IF identity[i].isProfileComplete
           THEN Abort(procs, p, IdleProc, Err(409, "Profile already completed."))
           ELSE Continue(procs, p, [procs[p] EXCEPT !.phone = d.phone, !.pc = "phoneCheck"])

\* tx.customerProfile.findUnique({where: {phone}})
CustomerProfileService_PhoneCheck(p) ==
    LET r == proc[p]
    IN  /\ variant = "customer" /\ r.op = "create" /\ r.pc = "phoneCheck"
        /\ IF \E j \in Ids : profile[j].exists /\ profile[j].phone = r.phone
           THEN Abort(proc, p, r, Err(409, "Phone number already in use."))
           ELSE Continue(proc, p, [r EXCEPT !.pc = "create"])

\* tx.customerProfile.create with a catch block that does not map P2002.
CustomerProfileService_Create_UnmappedP2002(p) ==
    LET r == proc[p]
    IN  /\ variant = "customer" /\ r.op = "create" /\ r.pc = "create"
        /\ ~ProfileLockedByOther(p, r.id)
        /\ ~PhoneIndexWait(p, r.id, r.phone)
        /\ IF InsertViolations(r.id, r.phone) # {}
           THEN Abort(proc, p, r, Err(500, "Database error occurred."))
           ELSE Continue(proc, p,
                    [r EXCEPT !.lockP = TRUE,
                              !.rowP = [NoProfileRow EXCEPT !.exists = TRUE, !.phone = r.phone],
                              !.pc = "markComplete"])

\* tx.customerProfile.create; P2002 is mapped by its target in the catch block.
CustomerProfileService_Create(p) ==
    LET r == proc[p]
    IN  /\ variant = "customer" /\ r.op = "create" /\ r.pc = "create"
        /\ ~ProfileLockedByOther(p, r.id)
        /\ ~PhoneIndexWait(p, r.id, r.phone)
        /\ IF InsertViolations(r.id, r.phone) # {}
           THEN \E target \in InsertViolations(r.id, r.phone) :
                    Abort(proc, p, r,
                          IF target = "phone"
                          THEN Err(409, "Phone number already in use.")
                          ELSE Err(409, "Customer already has a profile."))
           ELSE Continue(proc, p,
                    [r EXCEPT !.lockP = TRUE,
                              !.rowP = [NoProfileRow EXCEPT !.exists = TRUE, !.phone = r.phone],
                              !.pc = "markComplete"])

\* The step after tx.customerProfile.create without the update that marks
\* the customer complete and active.
CustomerProfileService_MarkComplete_NoWrite(p) ==
    LET r == proc[p]
    IN  /\ variant = "customer" /\ r.op = "create" /\ r.pc = "markComplete"
        /\ Continue(proc, p, [r EXCEPT !.pc = "commit"])

\* tx.customer.update({data: {isProfileComplete: true, isActive: true}})
CustomerProfileService_MarkComplete(p) ==
    LET r == proc[p]
    IN  /\ variant = "customer" /\ r.op = "create" /\ r.pc = "markComplete"
        /\ ~IdentityLockedByOther(p, r.id)
        /\ Continue(proc, p, [r EXCEPT !.lockI = TRUE,
                                       !.rowI = [ViewI(r) EXCEPT !.isProfileComplete = TRUE,
                                                                 !.isActive = TRUE],
                                       !.pc = "commit"])

\* The return of the transaction callback.
CustomerProfileService_Commit(p) ==
    LET r == proc[p]
    IN  /\ variant = "customer" /\ r.op = "create" /\ r.pc = "commit"
        /\ Commit(p, r)

\* ------------------------------------------------------------ specification
\* The requests a client can send to slot p.
OwnerCall(p) ==
    \/ \E i \in Ids \cup {NoSuchId}, ptoken \in PhoneTokens \cup {NoPhoneToken} :
           OwnerProfileService_Load(p, i, ptoken)
    \/ \E i \in Ids \cup {NoSuchId} :
           \E email \in (IF i \in Ids THEN OwnerEmailInputs ELSE {Absent}),
              fullName \in (IF i \in Ids THEN OwnerNameInputs ELSE {Absent}),
              ptoken \in (IF i \in Ids THEN PhoneTokens \cup {NoPhoneToken} ELSE {NoPhoneToken}) :
               UpdateOwnerProfileService_Load(p, i, email, fullName, ptoken)
    \/ \E t \in issued, sig \in TokenSigs : verifyEmailChangeTokenService_Load(p, t, sig)

CustomerCall(p) ==
    \/ \E i \in Ids \cup {NoSuchId}, ptoken \in (PhoneTokens \ {ShortPhoneToken}) \cup {NoPhoneToken} :
           CustomerProfileService_Load(p, i, ptoken)
    \/ \E i \in Ids \cup {NoSuchId} :
           \E email \in (IF i \in Ids THEN CustomerEmailInputs ELSE {Absent}),
              fullName \in (IF i \in Ids THEN CustomerNameInputs ELSE {Absent}),
              phone \in (IF i \in Ids THEN CustomerPhoneInputs ELSE {AbsentPhone}) :
               CustomerProfileUpdateService_Load(p, i, email, fullName, phone)
    \/ \E t \in issued, sig \in TokenSigs : VerifyCustomerEmailChangeService_Load(p, t, sig)

\* The statements of the transaction that slot p has open.
OwnerStep(p) ==
    \/ OwnerProfileService_ProfileCheck(p)
    \/ OwnerProfileService_PhoneCheck(p)
    \/ OwnerProfileService_Create(p)
    \/ OwnerProfileService_MarkComplete(p)
    \/ OwnerProfileService_Commit(p)
    \/ UpdateOwnerProfileService_PhoneCheck(p)
    \/ UpdateOwnerProfileService_EmailCheck(p)
    \/ UpdateOwnerProfileService_BumpVersion(p)
    \/ UpdateOwnerProfileService_ApplyAdmin(p)
    \/ UpdateOwnerProfileService_ApplyProfile(p)
    \/ UpdateOwnerProfileService_Commit(p)
    \/ verifyEmailChangeTokenService_EmailCheck(p)
    \/ verifyEmailChangeTokenService_Update(p)
    \/ verifyEmailChangeTokenService_Commit(p)

CustomerStep(p) ==
    \/ CustomerProfileService_PhoneCheck(p)
    \/ CustomerProfileService_Create(p)
    \/ CustomerProfileService_MarkComplete(p)
    \/ CustomerProfileService_Commit(p)
    \/ CustomerProfileUpdateService_PhoneCheck(p)
    \/ CustomerProfileUpdateService_EmailCheck(p)
    \/ CustomerProfileUpdateService_EmailCheckProfile(p)
    \/ CustomerProfileUpdateService_BumpVersion(p)
    \/ CustomerProfileUpdateService_ApplyCustomer(p)
    \/ CustomerProfileUpdateService_ApplyProfile(p)
    \/ CustomerProfileUpdateService_Commit(p)
    \/ VerifyCustomerEmailChangeService_EmailCheck(p)
    \/ VerifyCustomerEmailChangeService_EmailCheckProfile(p)
    \/ VerifyCustomerEmailChangeService_Update(p)
    \/ VerifyCustomerEmailChangeService_UpdateProfile(p)
    \/ VerifyCustomerEmailChangeService_Commit(p)

\* Calls issued one after another: one request slot.
Next ==
    \/ OwnerCall(1) \/ OwnerStep(1)
    \/ CustomerCall(1) \/ CustomerStep(1)
    \/ Reply(1)
Spec == Init /\ [][Next]_vars

\* Overlapping calls, two request slots.  The requests are the ones that
\* reach the transactions: well-formed emails, verified phone tokens,
\* email-change tokens as issued.
VerifiedPhoneTokens == [sig : {"ok"}, isVerified : {TRUE}, phone : {PhA, PhB}]
RaceEmailInputs == {"c@x.com", "d@x.com"}

\* Overlapping profile creations and phone changes.
PhoneRaceCall(p) ==
    \/ \E i \in Ids, ptoken \in VerifiedPhoneTokens : OwnerProfileService_Load(p, i, ptoken)
    \/ \E i \in Ids, ptoken \in VerifiedPhoneTokens :
           UpdateOwnerProfileService_Load(p, i, Absent, Absent, ptoken)
    \/ \E i \in Ids, ptoken \in VerifiedPhoneTokens : CustomerProfileService_Load(p, i, ptoken)
    \/ \E i \in Ids, phone \in {PhA, PhB} :
           CustomerProfileUpdateService_Load(p, i, Absent, Absent, phone)

PhoneRaceStep(p) ==
    \/ OwnerProfileService_ProfileCheck(p)
    \/ OwnerProfileService_PhoneCheck(p)
    \/ OwnerProfileService_Create(p)
    \/ OwnerProfileService_MarkComplete(p)
    \/ OwnerProfileService_Commit(p)
    \/ UpdateOwnerProfileService_PhoneCheck(p)
    \/ UpdateOwnerProfileService_ApplyProfile(p)
    \/ UpdateOwnerProfileService_Commit(p)
    \/ CustomerProfileService_PhoneCheck(p)
    \/ CustomerProfileService_Create(p)
    \/ CustomerProfileService_MarkComplete(p)
    \/ CustomerProfileService_Commit(p)
    \/ CustomerProfileUpdateService_PhoneCheck(p)
    \/ CustomerProfileUpdateService_ApplyProfile(p)
    \/ CustomerProfileUpdateService_Commit(p)

NextPhoneRace == \E p \in Procs : PhoneRaceCall(p) \/ PhoneRaceStep(p) \/ Reply(p)
SpecPhoneRace == Init /\ [][NextPhoneRace]_vars

\* Overlapping email-change initiations and confirmations, from the state
\* in which both identities have completed their profiles.
InitProfiled ==
    /\ variant \in {"owner", "customer"}
    /\ identity = [i \in Ids |->
                     [email |-> InitialEmail(i), isActive |-> TRUE, isProfileComplete |-> TRUE,
                      emailVerifyVersion |-> 0, pendingEmail |-> Null, fullName |-> "Asha"]]
    /\ profile = [i \in Ids |->
                    [NoProfileRow EXCEPT !.exists = TRUE, !.phone = IF i = 1 THEN PhA ELSE PhB]]
    /\ proc = [p \in Procs |-> IdleProc]
    /\ issued = {}
    /\ used = {}
    /\ hist = NoHist
    /\ tokenBlacklist = {}
    /\ req = NoRequest

EmailRaceCall(p) ==
    \/ \E i \in Ids, email \in RaceEmailInputs :
           UpdateOwnerProfileService_Load(p, i, email, Absent, NoPhoneToken)
    \/ \E t \in issued : verifyEmailChangeTokenService_Load(p, t, "ok")
    \/ \E i \in Ids, email \in RaceEmailInputs :
           CustomerProfileUpdateService_Load(p, i, email, Absent, AbsentPhone)
    \/ \E t \in issued : VerifyCustomerEmailChangeService_Load(p, t, "ok")

EmailRaceStep(p) ==
    \/ UpdateOwnerProfileService_EmailCheck(p)
    \/ UpdateOwnerProfileService_BumpVersion(p)
    \/ UpdateOwnerProfileService_Commit(p)
    \/ verifyEmailChangeTokenService_EmailCheck(p)
    \/ verifyEmailChangeTokenService_Update(p)
    \/ verifyEmailChangeTokenService_Commit(p)
    \/ CustomerProfileUpdateService_EmailCheck(p)
    \/ CustomerProfileUpdateService_EmailCheckProfile(p)
    \/ CustomerProfileUpdateService_BumpVersion(p)
    \/ CustomerProfileUpdateService_Commit(p)
    \/ VerifyCustomerEmailChangeService_EmailCheck(p)
    \/ VerifyCustomerEmailChangeService_EmailCheckProfile(p)
    \/ VerifyCustomerEmailChangeService_Update(p)
    \/ VerifyCustomerEmailChangeService_UpdateProfile(p)
    \/ VerifyCustomerEmailChangeService_Commit(p)

NextEmailRace == \E p \in Procs : EmailRaceCall(p) \/ EmailRaceStep(p) \/ Reply(p)
SpecEmailRace == InitProfiled /\ [][NextEmailRace]_vars

\* Updates that carry optional profile fields, one after another, from the
\* state in which both identities have their profiles.
\* A call that carries a GST number carries the legal name and the state
\* code that go with it.
OwnerFieldInputs ==
    {[f EXCEPT !.gstLegalName = IF f.gstNumber \in {AbsentPhone, NullPhone}
                               THEN AbsentPhone ELSE <<"A", "B", " ">>,
               !.gstStateCode = IF f.gstNumber \in {AbsentPhone, NullPhone}
                               THEN AbsentPhone ELSE <<"2", "9">>] :
        f \in [shortBio : {AbsentPhone, NullPhone, <<" ", "h", "i", " ">>, <<" ", " ">>},
               isGstRegistered : {Absent, "true", "false"},
               gstNumber : {AbsentPhone, NullPhone, [k \in 1..15 |-> "7"], <<"7", "7">>},
               gstLegalName : {AbsentPhone}, gstStateCode : {AbsentPhone},
               gstBillingAddress : {AbsentPhone},
               pincode : {AbsentPhone, NullPhone, <<"5", "6", " ", "0", "0", "0", "1">>,
                          <<"1", "2">>},
               address : {AbsentPhone}]}
CustomerAddressInputs == {AbsentPhone, NullPhone, <<"4", " ", "M", "G">>, <<" ", "4", " ", "M", "G">>}

NextOptional ==
    \/ \E i \in Ids, fields \in OwnerFieldInputs :
           UpdateOwnerProfileService_LoadFields(1, i, Absent, Absent, NoPhoneToken, fields)
    \/ UpdateOwnerProfileService_ApplyProfile(1)
    \/ UpdateOwnerProfileService_Commit(1)
    \/ \E i \in Ids, address \in CustomerAddressInputs :
           CustomerProfileUpdateService_LoadFields(1, i, Absent, Absent, AbsentPhone, address)
    \/ CustomerProfileUpdateService_ApplyProfile(1)
    \/ CustomerProfileUpdateService_Commit(1)
    \/ Reply(1)
SpecOptional == InitProfiled /\ [][NextOptional]_vars

\* Email-change initiations and confirmations, one after another, from the
\* state in which both identities have their profiles.
NextEmailSeq ==
    \/ \E i \in Ids, email \in Emails :
           UpdateOwnerProfileService_Load(1, i, email, Absent, NoPhoneToken)
    \/ \E t \in issued, sig \in TokenSigs : verifyEmailChangeTokenService_Load(1, t, sig)
    \/ \E i \in Ids, email \in Emails :
           CustomerProfileUpdateService_Load(1, i, email, Absent, AbsentPhone)
    \/ \E t \in issued, sig \in TokenSigs : VerifyCustomerEmailChangeService_Load(1, t, sig)
    \/ EmailRaceStep(1)
    \/ Reply(1)
SpecEmailSeq == InitProfiled /\ [][NextEmailSeq]_vars

\* Identity 1 has completed its profile; identity 2 is as sign-up left it.
InitFirstProfiled ==
    /\ variant \in {"owner", "customer"}
    /\ identity = [i \in Ids |->
                     [email |-> InitialEmail(i), isActive |-> (i = 1), isProfileComplete |-> (i = 1),
                      emailVerifyVersion |-> 0, pendingEmail |-> Null, fullName |-> "Asha"]]
    /\ profile = [i \in Ids |->
                    IF i = 1 THEN [NoProfileRow EXCEPT !.exists = TRUE, !.phone = PhA]
                    ELSE NoProfileRow]
    /\ proc = [p \in Procs |-> IdleProc]
    /\ issued = {}
    /\ used = {}
    /\ hist = NoHist
    /\ tokenBlacklist = {}
    /\ req = NoRequest

\* Overlapping profile creations, phone changes, email-change initiations
\* and confirmations: the calls whose writes can meet a unique index after
\* their own lookup found nothing.
IndexRaceCall(p) ==
    \/ EmailRaceCall(p)
    \/ \E i \in Ids :
           OwnerProfileService_Load(p, i, [sig |-> "ok", isVerified |-> TRUE, phone |-> PhC])
    \/ \E i \in Ids :
           CustomerProfileService_Load(p, i, [sig |-> "ok", isVerified |-> TRUE, phone |-> PhC])
    \/ \E i \in Ids :
           UpdateOwnerProfileService_Load(p, i, Absent, Absent,
               [sig |-> "ok", isVerified |-> TRUE, phone |-> PhC])
    \/ \E i \in Ids : CustomerProfileUpdateService_Load(p, i, Absent, Absent, PhC)

IndexRaceStep(p) == EmailRaceStep(p) \/ PhoneRaceStep(p)

NextIndexRace == \E p \in Procs : IndexRaceCall(p) \/ IndexRaceStep(p) \/ Reply(p)
SpecIndexRace == InitFirstProfiled /\ [][NextIndexRace]_vars

\* Overlapping calls of every kind on one identity.
VersionRaceEmailInputs == {Absent, "a@x.com", "c@x.com"}
VersionRaceNameInputs == {Absent, "Ravi"}

VersionRaceCall(p) ==
    \/ \E ptoken \in VerifiedPhoneTokens : OwnerProfileService_Load(p, 1, ptoken)
    \/ \E email \in VersionRaceEmailInputs, fullName \in VersionRaceNameInputs,
          ptoken \in VerifiedPhoneTokens \cup {NoPhoneToken} :
           UpdateOwnerProfileService_Load(p, 1, email, fullName, ptoken)
    \/ \E t \in issued : verifyEmailChangeTokenService_Load(p, t, "ok")
    \/ \E ptoken \in VerifiedPhoneTokens : CustomerProfileService_Load(p, 1, ptoken)
    \/ \E email \in VersionRaceEmailInputs, fullName \in VersionRaceNameInputs,
          phone \in {AbsentPhone, PhA, PhB} :
           CustomerProfileUpdateService_Load(p, 1, email, fullName, phone)
    \/ \E t \in issued : VerifyCustomerEmailChangeService_Load(p, t, "ok")

NextVersionRace ==
    \E p \in Procs : VersionRaceCall(p) \/ OwnerStep(p) \/ CustomerStep(p) \/ Reply(p)
SpecVersionRace == Init /\ [][NextVersionRace]_vars

\* ------------------------------------------------------------ properties
\* The confirm request of the variant under check.
ConfirmCall(p, t, sig) ==
    IF variant = "owner" THEN verifyEmailChangeTokenService_Load(p, t, sig)
    ELSE VerifyCustomerEmailChangeService_Load(p, t, sig)

\* Slot p ends its call in this step with a statement of its transaction.
Finishes(p) == InFlight(p) /\ proc'[p].pc = "done"
Commits(p) == Finishes(p) /\ proc[p].pc = "commit"

\* C1: an email-change token is accepted at most once; presented again
\* after it was accepted, it is refused with StaleLink and the identity's
\* email and emailVerifyVersion stay as they are.
C1_SingleUse ==
    [][\A p \in Procs :
          /\ \A t \in used :
                ConfirmCall(p, t, "ok") =>
                    /\ proc'[p].result = StaleLink
                    /\ identity' = identity
                    /\ used' = used
          /\ (Commits(p) /\ proc[p].op = "confirm") => proc[p].etoken \notin used]_vars

C1_Witness ==
    \E p \in Procs :
        /\ proc[p].pc = "done" /\ proc[p].op = "confirm"
        /\ proc[p].etoken \in used
        /\ proc[p].result = StaleLink
        /\ identity[proc[p].id].email = proc[p].etoken.newEmail

\* No other identity holds email e, on its identity row or on its profile.
EmailFree(i, e) ==
    \A j \in Ids \ {i} :
        identity[j].email # e /\ identity[j].pendingEmail # e /\ profile[j].email # e

\* Slot p carries the confirmation of token t through its transaction.
Confirming(p, t) == InFlight(p) /\ proc[p].op = "confirm" /\ proc[p].etoken = t

\* C2: a token issued before a later initiation or confirmation of its
\* identity is refused with StaleLink and changes nothing; of two tokens
\* T1 (version v+1) and T2 (version v+2) issued one after the other, T2
\* is accepted while it is the latest, sets email to its newEmail and
\* leaves emailVerifyVersion at v+3.
C2_Supersession ==
    [][\A p \in Procs :
          /\ \A t \in issued :
                (identity[t.id].emailVerifyVersion > t.version /\ ConfirmCall(p, t, "ok")) =>
                    /\ proc'[p].result = StaleLink
                    /\ identity' = identity
                    /\ profile' = profile
          /\ \A T1, T2 \in issued :
                (/\ T1.id = T2.id
                 /\ T2.version = T1.version + 1
                 /\ identity[T2.id].emailVerifyVersion = T2.version
                 /\ EmailFree(T2.id, T2.newEmail)) =>
                    /\ ConfirmCall(p, T2, "ok") => proc'[p].pc = "emailCheck"
                    /\ Confirming(p, T2) => proc'[p].result \in {NoResult, Ok}
                    /\ (Confirming(p, T2) /\ Commits(p)) =>
                          /\ identity'[T2.id].email = T2.newEmail
                          /\ identity'[T2.id].emailVerifyVersion = T1.version + 2]_vars

C2_Witness ==
    \E p \in Procs : \E T1, T2 \in issued :
        /\ T1.id = T2.id /\ T2.version = T1.version + 1 /\ T1.newEmail # T2.newEmail
        /\ T1 \notin used /\ T2 \in used
        /\ proc[p].pc = "done" /\ proc[p].op = "confirm" /\ proc[p].etoken = T2
        /\ proc[p].result = Ok
        /\ identity[T2.id].email = T2.newEmail
        /\ identity[T2.id].emailVerifyVersion = T1.version + 2

\* C3: a successful initiation for email E from version v, followed at once
\* by the confirmation of the token it returned, ends with email = E and
\* emailVerifyVersion = v + 2.
C3_RoundTrip ==
    [][\A p \in Procs :
          /\ (Commits(p) /\ proc[p].op = "update" /\ proc[p].email # Absent) =>
                /\ hist'.link.newEmail = proc[p].email
                /\ hist'.v0 = identity[proc[p].id].emailVerifyVersion
          /\ hist.link # NoToken =>
                /\ identity[hist.link.id].emailVerifyVersion = hist.v0 + 1
                /\ ConfirmCall(p, hist.link, "ok") => proc'[p].pc = "emailCheck"
                /\ Confirming(p, hist.link) => proc'[p].result \in {NoResult, Ok}
                /\ (Confirming(p, hist.link) /\ Commits(p)) =>
                      /\ identity'[hist.link.id].email = hist.link.newEmail
                      /\ identity'[hist.link.id].emailVerifyVersion = hist.v0 + 2]_vars

C3_Witness ==
    \E p \in Procs :
        /\ hist.roundTrip
        /\ proc[p].pc = "done" /\ proc[p].op = "confirm" /\ proc[p].result = Ok
        /\ identity[proc[p].id].email = proc[p].etoken.newEmail
        /\ identity[proc[p].id].emailVerifyVersion = hist.v0 + 2

\* C5: no step of an update call changes a stored email or stages one; a
\* stored email changes only when a confirmation commits, and then to the
\* newEmail of the issued token it accepted.
C5_UpdateNeverWritesEmail ==
    [][/\ \A p \in Procs :
            (proc'[p].op = "update" /\ proc'[p].lockI) =>
                proc'[p].rowI.email = identity'[proc'[p].id].email
       /\ \A i \in Ids :
            identity'[i].email # identity[i].email =>
                \E p \in Procs :
                    /\ Commits(p) /\ proc[p].op = "confirm" /\ proc[p].id = i
                    /\ proc'[p].result = Ok
                    /\ proc[p].etoken \in issued
                    /\ identity'[i].email = proc[p].etoken.newEmail]_vars

C5_Witness ==
    \E p \in Procs :
        /\ proc[p].pc = "done" /\ proc[p].op = "update" /\ proc[p].result = Ok
        /\ proc[p].link # NoToken
        /\ identity[proc[p].id].email = proc[p].link.oldEmail
        /\ identity[proc[p].id].email # proc[p].link.newEmail

MutuallyExclusiveChange == Err(400, "You can update either email or phone at a time, not both")

\* The phone tokens that verify, are marked verified and carry a phone the
\* owner update accepts.
ValidPhoneTokens ==
    {ptoken \in PhoneTokens :
        ptoken.sig = "ok" /\ ptoken.isVerified /\ Len(DigitsOnly(ptoken.phone)) >= 7}

\* The emails an owner update takes as a change of the stored email.
OwnerNewEmails(stored) ==
    {email \in OwnerEmailInputs \ {Absent, Null} : Trim(email) \notin {"", stored}}

\* The step ends the call of slot p with MutuallyExclusiveChange and writes
\* nothing.
MutuallyExcluded(p) ==
    /\ proc'[p].result = MutuallyExclusiveChange
    /\ UNCHANGED <<identity, profile, issued>>
    /\ hist'.link = NoToken

\* C6: an update that supplies an email different from the stored one
\* together with a verified phone different from the stored one fails with
\* MutuallyExclusiveChange; email, phone and emailVerifyVersion stay as they
\* are and no token is issued.  In every state in which no call is in
\* progress, no such call has any other outcome.
C6_MutualExclusion ==
    \A p \in Procs, i \in Ids :
        (\A q \in Procs : CanStart(q)) =>
            /\ (variant = "owner" /\ profile[i].exists) =>
                  \A ptoken \in {t \in ValidPhoneTokens : DigitsOnly(t.phone) # profile[i].phone},
                     email \in OwnerNewEmails(identity[i].email),
                     fullName \in OwnerNameInputs :
                      ~ENABLED (/\ UpdateOwnerProfileService_Load(p, i, email, fullName, ptoken)
                                /\ ~MutuallyExcluded(p))
            /\ variant = "customer" =>
                  \A email \in CustomerEmailInputs \ {Absent, identity[i].email},
                     phone \in CustomerPhoneInputs \ {AbsentPhone, CustomerCurrentPhone(profile[i])},
                     fullName \in CustomerNameInputs :
                      ~ENABLED (/\ CustomerProfileUpdateService_Load(p, i, email, fullName, phone)
                                /\ ~MutuallyExcluded(p))

C6_Witness ==
    \E p \in Procs :
        /\ proc[p].pc = "done"
        /\ proc[p].result = MutuallyExclusiveChange
        /\ issued = {}

\* The call in slot p is one that increments the counter when it succeeds:
\* a confirmation, or an update that has minted a token.
Bumping(r) == r.op = "confirm" \/ (r.op = "update" /\ r.link # NoToken)

\* C4: emailVerifyVersion never decreases; it goes up by exactly 1 when an
\* update that initiates an email change commits and by exactly 1 when a
\* confirmation commits, whatever calls overlap; a creation or any other
\* update, one whose email equals the stored email included, leaves it as
\* it is.
C4_VersionMonotonic ==
    [][\A i \in Ids :
          /\ identity'[i].emailVerifyVersion >= identity[i].emailVerifyVersion
          /\ identity'[i].emailVerifyVersion # identity[i].emailVerifyVersion =>
                \E p \in Procs : Commits(p) /\ proc[p].id = i /\ Bumping(proc[p])
          /\ \A p \in Procs :
                /\ (Commits(p) /\ proc[p].id = i) =>
                      /\ identity'[i].emailVerifyVersion =
                            identity[i].emailVerifyVersion + (IF Bumping(proc[p]) THEN 1 ELSE 0)
                      /\ (proc[p].op = "update") => (Bumping(proc[p]) <=> proc[p].email # Absent)
                /\ (CanStart(p) /\ proc'[p].pc # "idle") =>
                      \A fullName \in VersionRaceNameInputs :
                          (\/ UpdateOwnerProfileService_Load(p, i, identity[i].email, fullName,
                                                             NoPhoneToken)
                           \/ CustomerProfileUpdateService_Load(p, i, identity[i].email, fullName,
                                                                AbsentPhone)) =>
                              proc'[p].email = Absent]_vars

C4_Witness ==
    \E p \in Procs :
        /\ proc[p].pc = "done" /\ proc[p].op = "update" /\ proc[p].result = Ok
        /\ proc[p].link = NoToken /\ proc[p].conc # {}
        /\ used # {}
        /\ identity[proc[p].id].emailVerifyVersion = 2

\* C7: no two identities have the same stored email, whatever updates and
\* confirmations of either identity overlap.
C7_EmailUnique ==
    \A i, j \in Ids : i # j => identity[i].email # identity[j].email

C7_Witness ==
    \E p, q \in Procs :
        /\ p # q /\ proc[p].pc = "done" /\ proc[q].pc = "done"
        /\ proc[p].op = "confirm" /\ proc[q].op = "confirm"
        /\ proc[p].id # proc[q].id
        /\ proc[p].etoken.newEmail = proc[q].etoken.newEmail
        /\ proc[q].result = Ok
        /\ proc[p].result = Err(409, "Email already in use")
        /\ identity[proc[q].id].email = proc[q].etoken.newEmail

PhoneInUse ==
    {Err(409, "Phone number already in use by another owner"),
     Err(409, "Phone number already in use"),
     Err(409, "Phone number is already in use."),
     Err(409, "Phone number already in use by another customer"),
     Err(409, "Phone number already in use.")}

\* The calls in slots p and q overlapped.
Overlapped(p, q) == p # q /\ q \in proc[p].conc /\ p \in proc[q].conc

\* The profile of the identity admits the call in slot p: a creation finds
\* none, an update has loaded one.
ProfileAdmits(p) ==
    /\ proc[p].op = "create" => ~profile[proc[p].id].exists
    /\ proc[p].op = "update" => proc[p].hasProfile

\* Slot p ends a call that asked for the phone the finished, successful call
\* in slot q asked for.
SamePhoneAfter(p, q) ==
    /\ Overlapped(p, q) /\ Finishes(p) /\ ProfileAdmits(p)
    /\ proc[q].pc = "done" /\ proc[q].result = Ok
    /\ proc[p].phone # AbsentPhone /\ proc[p].phone = proc[q].phone

PhoneUnique ==
    \A i, j \in Ids :
        (i # j /\ profile[i].exists /\ profile[j].exists) => profile[i].phone # profile[j].phone

\* C8: no two profiles hold the same phone, whatever creations and updates
\* of different identities overlap; of two overlapping calls of different
\* identities that ask for the same new phone, the one that ends after the
\* other succeeded does not succeed: it receives a 409 PhoneInUse, from the
\* pre-check or from the unique index.
C8_PhoneUnique ==
    /\ []PhoneUnique
    /\ [][\A p, q \in Procs :
             (SamePhoneAfter(p, q) /\ proc[p].id # proc[q].id) =>
                 /\ proc'[p].result # Ok
                 /\ proc'[p].result \in PhoneInUse]_vars

C8_Witness ==
    \E p, q \in Procs :
        /\ Overlapped(p, q) /\ proc[p].pc = "done" /\ proc[q].pc = "done"
        /\ proc[p].id # proc[q].id
        /\ proc[p].phone = proc[q].phone /\ proc[p].phone # AbsentPhone
        /\ proc[q].result = Ok
        /\ proc[p].op = "update" /\ proc[p].result = Err(409, "Phone number already in use")
        /\ profile[proc[q].id].phone = proc[q].phone
        /\ profile[proc[p].id].phone # proc[p].phone

\* C9 as the specification words it: of two overlapping updates of one
\* identity that ask for the same new phone, the one that ends after the other
\* succeeded receives PhoneInUse.
C9_SameIdentityLoserRefused ==
    [][\A p, q \in Procs :
          (/\ SamePhoneAfter(p, q) /\ proc[p].id = proc[q].id
           /\ proc[p].op = "update" /\ proc[q].op = "update") =>
              proc'[p].result \in PhoneInUse]_vars

\* C9: of two overlapping updates of one identity that ask for the same new
\* phone, the one that ends after the other succeeded succeeds as well and
\* the profile holds that phone; an update receives PhoneInUse only while
\* the profile of another identity holds the phone it asked for.
C9_SameIdentityBothSucceed ==
    [][\A p \in Procs :
          /\ \A q \in Procs :
                (/\ SamePhoneAfter(p, q) /\ proc[p].id = proc[q].id
                 /\ proc[p].op = "update" /\ proc[q].op = "update") =>
                    /\ proc'[p].result = Ok
                    /\ profile'[proc[p].id].phone = proc[p].phone
          /\ (Finishes(p) /\ proc[p].op = "update" /\ proc'[p].result \in PhoneInUse) =>
                \E j \in Ids \ {proc[p].id} :
                    profile[j].exists /\ profile[j].phone = proc[p].phone]_vars

C9_Witness ==
    \E p, q \in Procs :
        /\ Overlapped(p, q) /\ proc[p].pc = "done" /\ proc[q].pc = "done"
        /\ proc[p].op = "update" /\ proc[q].op = "update"
        /\ proc[p].id = proc[q].id
        /\ proc[p].phone = proc[q].phone /\ proc[p].phone # AbsentPhone
        /\ proc[p].result = Ok /\ proc[q].result = Ok
        /\ profile[proc[p].id].phone = proc[p].phone

\* C10: a token is accepted by one confirmation only, overlapping ones
\* included: a confirmation that commits has a token no confirmation has
\* accepted, and leaves emailVerifyVersion at the token's version plus 1.
C10_ConfirmOnce ==
    [][\A p \in Procs :
          (Commits(p) /\ proc[p].op = "confirm") =>
              /\ proc[p].etoken \notin used
              /\ identity'[proc[p].id].emailVerifyVersion = proc[p].etoken.version + 1]_vars

ProfileNotFound ==
    {Err(404, "Owner profile not found. Please create profile first."),
     Err(404, "Customer profile not found. Please create profile first.")}

PassesPhoneGate(ptoken) == ptoken.sig = "ok" /\ ptoken.isVerified

\* The open transaction of slot p has written to the profile no phone other
\* than the one its call decided on.
WritesDecidedPhone(p) ==
    (InFlight(p) /\ proc[p].op = "update" /\ proc[p].lockP) =>
        proc[p].rowP.phone \in {profile[proc[p].id].phone, proc[p].phone}

\* C12: in both variants an update changes a profile's phone only if the
\* call carried a phone-verification token that is well signed, unexpired
\* and marked verified, and the phone it stores is the one decoded from that
\* token; a phone the client supplies directly is never written.  An update
\* writes only the phone its call decided on, and in every state in which
\* no call is in progress no update call decides on a phone in any other
\* way.
C12_PhoneOnlyByToken ==
    /\ \A p \in Procs : WritesDecidedPhone(p)
    /\ \A p \in Procs, i \in Ids :
        (\A q \in Procs : CanStart(q)) =>
            /\ variant = "owner" =>
                  \A ptoken \in PhoneTokens \cup {NoPhoneToken},
                     email \in OwnerEmailInputs, fullName \in OwnerNameInputs :
                      ~ENABLED (/\ UpdateOwnerProfileService_Load(p, i, email, fullName, ptoken)
                                /\ proc'[p].phone # AbsentPhone
                                /\ ~(/\ PassesPhoneGate(ptoken)
                                     /\ proc'[p].phone = DigitsOnly(ptoken.phone)))
            /\ variant = "customer" =>
                  \A phone \in CustomerPhoneInputs,
                     email \in CustomerEmailInputs, fullName \in CustomerNameInputs :
                      ~ENABLED (/\ CustomerProfileUpdateService_Load(p, i, email, fullName, phone)
                                /\ proc'[p].phone # AbsentPhone)

\* The update in slot r changes no contact identifier: it decided on no new
\* email (none supplied, or one equal to the stored email) and carries no
\* phone token that decodes to a phone other than the stored one.  Only the
\* owner update takes a phone token; the customer update takes none.
UnrelatedUpdate(r) ==
    /\ r.op = "update"
    /\ r.email = Absent
    /\ (variant = "owner" => r.phone = AbsentPhone)

\* C13: an update call that supplies neither an email differing from the
\* stored one nor a phone token decoding to a phone differing from the
\* stored one leaves identity.email, profile.phone and emailVerifyVersion
\* as they are and issues no email-change token, in every step of the call
\* and so for any number of such calls in sequence.
C13_UnrelatedUpdateFrame ==
    [][\A p \in Procs :
          (InFlight(p) /\ UnrelatedUpdate(proc[p])) =>
              /\ \A i \in Ids :
                    /\ identity'[i].email = identity[i].email
                    /\ identity'[i].emailVerifyVersion = identity[i].emailVerifyVersion
                    /\ profile'[i].phone = profile[i].phone
              /\ issued' = issued
              /\ proc'[p].link = NoToken]_vars

\* A token that was signed without a version.
Versionless(t) == [t EXCEPT !.version = NoToken.version]

\* The well-signed, unexpired tokens whose version is absent or is not the
\* current emailVerifyVersion of their identity.
StaleTokens ==
    {t \in issued \cup {Versionless(u) : u \in issued} :
        t.version # identity[t.id].emailVerifyVersion}

\* The step ends the call of slot p with StaleLink and writes nothing.
RejectedAsStale(p) ==
    /\ proc'[p].pc = "done" /\ proc'[p].result = StaleLink
    /\ UNCHANGED <<identity, profile, issued, used>>

\* C14: in any state, a confirmation called with a well-signed, unexpired
\* token whose version is absent or differs from the identity's current
\* emailVerifyVersion is rejected with StaleLink; the identity's email and
\* emailVerifyVersion and the profile's email stay as they are.  No such
\* call that a free request slot can take has any other outcome.
C14_StaleConfirmRejected ==
    \A p \in Procs :
        CanStart(p) =>
            \A t \in StaleTokens :
                /\ variant = "owner" =>
                      /\ ENABLED verifyEmailChangeTokenService_Load(p, t, "ok")
                      /\ ~ENABLED (/\ verifyEmailChangeTokenService_Load(p, t, "ok")
                                   /\ ~RejectedAsStale(p))
                /\ variant = "customer" =>
                      /\ ENABLED VerifyCustomerEmailChangeService_Load(p, t, "ok")
                      /\ ~ENABLED (/\ VerifyCustomerEmailChangeService_Load(p, t, "ok")
                                   /\ ~RejectedAsStale(p))

C14_Witness ==
    \E p \in Procs :
        /\ variant = "customer"
        /\ proc[p].pc = "done" /\ proc[p].op = "confirm" /\ proc[p].result = StaleLink
        /\ proc[p].etoken \in issued
        /\ proc[p].etoken.version < identity[proc[p].id].emailVerifyVersion
        /\ identity[proc[p].id].email = proc[p].etoken.oldEmail
        /\ profile[proc[p].id].email # proc[p].etoken.newEmail

\* The Conflict answers for an email another identity holds: from the
\* lookups of the confirmations and from the unique index (P2002).
EmailInUse ==
    {Err(409, "Email already in use"),
     Err(409, "Email already in use by another owner. Please use a different email"),
     Err(409, "Email already in use by another customer. Please use a different email")}

\* Token t carries the current emailVerifyVersion of its identity.
VersionValid(t) == t.version = identity[t.id].emailVerifyVersion

\* Another identity has taken the new email of token t since t was issued.
ClaimedByOther(t) == \E j \in Ids \ {t.id} : identity[j].email = t.newEmail

\* C15: initiation does not reserve the new email, so two identities can
\* both hold currently valid tokens for the same new email E.  Once one of
\* them has confirmed, the confirmation of the other ends with Conflict
\* EmailInUse (409), whichever statement detects the conflict; the second
\* identity's email and emailVerifyVersion stay as they are and its token
\* is still version-valid.
C15_SecondConfirmConflicts ==
    [][\A p \in Procs :
          LET t == proc[p].etoken
          IN  /\ (Finishes(p) /\ proc[p].op = "confirm"
                    /\ VersionValid(t) /\ ClaimedByOther(t)) =>
                     /\ proc'[p].result \in EmailInUse
                     /\ identity'[t.id].email = identity[t.id].email
                     /\ identity'[t.id].emailVerifyVersion = t.version
                     /\ profile'[t.id] = profile[t.id]
              /\ \A u \in issued :
                    (CanStart(p) /\ ConfirmCall(p, u, "ok")
                       /\ VersionValid(u) /\ ClaimedByOther(u)) =>
                        proc'[p].pc = "emailCheck"]_vars

C15_Witness ==
    \E p \in Procs, first \in used :
        LET t == proc[p].etoken
        IN  /\ proc[p].pc = "done" /\ proc[p].op = "confirm"
            /\ proc[p].result \in EmailInUse
            /\ t \in issued /\ first \in issued
            /\ first.id # t.id /\ first.newEmail = t.newEmail
            /\ identity[first.id].email = t.newEmail
            /\ identity[t.id].email = t.oldEmail
            /\ identity[t.id].emailVerifyVersion = t.version

\* The Conflict answers of an initiation whose new email another identity
\* holds.
InitiationEmailInUse ==
    {Err(409, "Email already in use"),
     Err(409, "Email already in use by another customer")}

\* The update in slot p has passed the guards that precede the email change
\* and asks for an email that is the stored email of another identity.
AsksTakenEmail(p) ==
    /\ InFlight(p) /\ proc[p].op = "update"
    /\ proc[p].email # Absent
    /\ \E j \in Ids \ {proc[p].id} : identity[j].email = proc[p].email

\* C16: an update that requests an email which is currently the stored
\* email of another identity of the same type fails with Conflict
\* EmailInUse (409); no token is issued and emailVerifyVersion is not
\* incremented.  No statement of such a call writes anything, and the call
\* ends with the conflict.
C16_TakenEmailRefused ==
    [][\A p \in Procs :
          AsksTakenEmail(p) =>
              /\ UNCHANGED <<identity, profile, issued>>
              /\ proc'[p].link = NoToken
              /\ proc'[p].rowI.emailVerifyVersion # proc[p].v0 + 1
              /\ Finishes(p) => proc'[p].result \in InitiationEmailInUse]_vars

C16_Witness ==
    \E p \in Procs :
        /\ proc[p].pc = "done" /\ proc[p].op = "update"
        /\ proc[p].result \in InitiationEmailInUse
        /\ identity[proc[p].id].isActive
        /\ identity[proc[p].id].emailVerifyVersion = 0
        /\ issued = {}

InactiveAccount == Err(403, "Cannot update email. Account must be active to change email address")

\* The update in slot p has passed the guards that precede the email change
\* and asks, for an identity that is not active, for an email no other
\* identity holds.
InactiveAsksEmail(p) ==
    /\ InFlight(p) /\ proc[p].op = "update"
    /\ proc[p].email # Absent
    /\ ~identity[proc[p].id].isActive
    /\ EmailFree(proc[p].id, proc[p].email)

\* C17: an update that requests a changed email for an identity whose
\* isActive flag is false fails with Forbidden InactiveAccount (403),
\* issues no token and applies neither the version increment nor any other
\* field of the call; so no email-change token exists for an identity that
\* has never been active (isActive is set by profile creation and never
\* cleared, so an identity that is not active never was).
C17_InactiveRefused ==
    [][/\ \A p \in Procs :
             InactiveAsksEmail(p) =>
                 /\ UNCHANGED <<identity, profile, issued>>
                 /\ proc'[p].link = NoToken
                 /\ ~proc'[p].lockI /\ ~proc'[p].lockP
                 /\ Finishes(p) => proc'[p].result = InactiveAccount
       /\ \A i \in Ids : identity[i].isActive => identity'[i].isActive
       /\ \A t \in issued' : identity'[t.id].isActive
       /\ \A p \in Procs : proc'[p].link # NoToken => identity'[proc'[p].id].isActive]_vars

C17_Witness ==
    \E p \in Procs :
        /\ proc[p].pc = "done" /\ proc[p].op = "update"
        /\ proc[p].result = InactiveAccount
        /\ ~identity[proc[p].id].isActive
        /\ identity[proc[p].id].emailVerifyVersion = 0
        /\ \A t \in issued : t.id # proc[p].id

NoChanges == Err(400, "No changes provided to update")

\* The step ends the call of slot p with NoChanges and writes nothing.
RejectedAsNoChange(p) ==
    /\ proc'[p].pc = "done" /\ proc'[p].result = NoChanges
    /\ UNCHANGED <<identity, profile, issued>>
    /\ hist'.link = NoToken

\* The emails and phone tokens of an owner update that name the stored
\* value or none, and the same for the customer's email and phone fields.
OwnerSameEmails(stored) ==
    {email \in OwnerEmailInputs : email \in {Absent, Null} \/ Trim(email) = stored}
OwnerSamePhoneTokens(stored) ==
    {NoPhoneToken} \cup {ptoken \in ValidPhoneTokens : DigitsOnly(ptoken.phone) = stored}
CustomerSameEmails(stored) == {email \in CustomerEmailInputs : email \in {Absent, stored}}
CustomerSamePhones(prof) ==
    {phone \in CustomerPhoneInputs \ {NoPhone} :
        phone = AbsentPhone \/ (prof.exists /\ phone = prof.phone)}

\* The update of slot p that is about to commit has something to write.
StagedSomething(p) ==
    (proc[p].op = "update" /\ proc[p].pc = "commit") =>
        \/ proc[p].fullName # Absent
        \/ proc[p].phone # AbsentPhone
        \/ proc[p].link # NoToken

\* C18: an update for an existing identity that provides no other field,
\* an email (if any) equal to the stored one and a token (if any) whose
\* phone equals the stored one fails with NoChanges and changes nothing;
\* conversely every update that reaches its commit staged a field write,
\* changes the phone or initiated an email change.  In every state in
\* which no call is in progress, no such call has any other outcome.
C18_NoOpRejected ==
    /\ \A p \in Procs : StagedSomething(p)
    /\ \A p \in Procs, i \in Ids :
        (\A q \in Procs : CanStart(q)) =>
            /\ (variant = "owner" /\ profile[i].exists) =>
                  \A email \in OwnerSameEmails(identity[i].email),
                     ptoken \in OwnerSamePhoneTokens(profile[i].phone),
                     fullName \in {Absent, Null} :
                      ~ENABLED (/\ UpdateOwnerProfileService_Load(p, i, email, fullName, ptoken)
                                /\ ~RejectedAsNoChange(p))
            /\ variant = "customer" =>
                  \A email \in CustomerSameEmails(identity[i].email),
                     phone \in CustomerSamePhones(profile[i]) :
                      ~ENABLED (/\ CustomerProfileUpdateService_Load(p, i, email, Absent, phone)
                                /\ ~RejectedAsNoChange(p))

C18_Witness ==
    \E p \in Procs, i \in Ids :
        /\ proc[p].pc = "done" /\ proc[p].result = NoChanges
        /\ hist.link = NoToken
        /\ profile[i].exists /\ profile[i].phone = PhB
        /\ identity[i].fullName = "Asha"

\* What the confirmations answer to a token whose signature does not verify
\* or that has expired.
OwnerInvalidOrExpired == {Err(401, "Token expired"), Err(401, "Invalid token")}
CustomerInvalidOrExpired ==
    {Err(400, "Invalid or expired email change token. Please request a new link")}

\* The step ends the call of slot p with one of the answers in results,
\* with no identity loaded and nothing written.
RejectedUnloaded(p, results) ==
    /\ proc'[p].pc = "done" /\ proc'[p].result \in results
    /\ proc'[p].id = NoSuchId /\ proc'[p].v0 = IdleProc.v0
    /\ UNCHANGED <<identity, profile, issued, used>>

\* The presentations of a token that fail jwt verification.
BadSigs == TokenSigs \ {"ok"}

UnverifiedPhoneTokens == {ptoken \in PhoneTokens : ptoken.sig = "ok" /\ ~ptoken.isVerified}

\* The Invalid answers to an unverified phone token.
InvalidUnverified ==
    {PhoneNotVerified, Err(400, "Phone number not verified. Verification required.")}

\* The step ends the call of slot p with an error and writes nothing.
RefusedUnwritten(p) ==
    /\ proc'[p].pc = "done" /\ proc'[p].result # Ok
    /\ UNCHANGED <<identity, profile, issued>>

\* C20: a well-signed, unexpired phone-verification token with isVerified =
\* false is never accepted: every create or update call that carries one
\* fails and writes neither a profile nor a phone, and the call fails with
\* Invalid (400) whenever it reaches the Phone Verification Gate, which is
\* every create and every update of an owner that has a profile.  In every
\* state in which no call is in progress, no such call has any other
\* outcome.
C20_UnverifiedNeverAccepted ==
    \A p \in Procs, ptoken \in UnverifiedPhoneTokens :
        (\A q \in Procs : CanStart(q)) =>
            \A i \in Ids \cup {NoSuchId} :
                /\ variant = "owner" =>
                      /\ ~ENABLED (/\ OwnerProfileService_Load(p, i, ptoken)
                                   /\ ~(/\ RefusedUnwritten(p)
                                        /\ proc'[p].result \in InvalidUnverified))
                      /\ \A email \in OwnerEmailInputs, fullName \in OwnerNameInputs :
                            ~ENABLED (/\ UpdateOwnerProfileService_Load(p, i, email, fullName, ptoken)
                                      /\ ~(/\ RefusedUnwritten(p)
                                           /\ (i \in Ids /\ profile[i].exists) =>
                                                 proc'[p].result \in InvalidUnverified))
                /\ variant = "customer" =>
                      ~ENABLED (/\ CustomerProfileService_Load(p, i, ptoken)
                                /\ ~(/\ RefusedUnwritten(p)
                                     /\ proc'[p].result \in InvalidUnverified))

C20_Witness ==
    \E p \in Procs, i \in Ids :
        /\ variant = "owner"
        /\ proc[p].pc = "done" /\ proc[p].result = PhoneNotVerified
        /\ profile[i].exists /\ profile[i].phone = PhB
        /\ \A j \in Ids : profile[j].exists => profile[j].phone # PhA

\* The Expired answers of the two phone token verifiers.
PhoneTokenExpired ==
    {Err(401, "Phone verification token has expired. Please verify your phone again."),
     Err(400, "Phone verification token has expired. Please verify your phone number again.")}

\* The Invalid answers of the two phone token verifiers.
PhoneTokenInvalid == InvalidUnverified \cup {Err(400, "Invalid phone verification token.")}

\* C21: on every path that uses the Phone Verification Gate (owner create,
\* owner update, customer create) an expired token is answered with the
\* Expired outcome and a token that does not verify or is not marked
\* verified with the Invalid outcome; the two are different error values
\* and in neither case is anything written.  In every state in which no
\* call is in progress, no such call has any other outcome.
C21_ExpiredDistinctFromInvalid ==
    /\ PhoneTokenExpired \cap PhoneTokenInvalid = {}
    /\ \A p \in Procs, ptoken \in {t \in PhoneTokens : t.sig # "ok" \/ ~t.isVerified} :
        LET expected == IF ptoken.sig = "expired" THEN PhoneTokenExpired ELSE PhoneTokenInvalid
        IN  (\A q \in Procs : CanStart(q)) =>
              \A i \in Ids \cup {NoSuchId} :
                /\ variant = "owner" =>
                      /\ ~ENABLED (/\ OwnerProfileService_Load(p, i, ptoken)
                                   /\ ~(/\ RefusedUnwritten(p)
                                        /\ proc'[p].result \in expected))
                      /\ \A email \in OwnerEmailInputs, fullName \in OwnerNameInputs :
                            ~ENABLED (/\ UpdateOwnerProfileService_Load(p, i, email, fullName, ptoken)
                                      /\ ~(/\ RefusedUnwritten(p)
                                           /\ (i \in Ids /\ profile[i].exists) =>
                                                 proc'[p].result \in expected))
                /\ variant = "customer" =>
                      ~ENABLED (/\ CustomerProfileService_Load(p, i, ptoken)
                                /\ ~(/\ RefusedUnwritten(p)
                                     /\ proc'[p].result \in expected))

C21_Witness ==
    \E p \in Procs :
        /\ variant = "customer"
        /\ proc[p].pc = "done" /\ proc[p].result \in PhoneTokenExpired
        /\ \A i \in Ids : ~profile[i].exists /\ ~identity[i].isProfileComplete

\* C22: in every reachable state every profile's phone, owner or customer,
\* written by create or by update, consists of digits only and has at
\* least 7 digits.
C22_StoredPhonesNormalized ==
    \A i \in Ids :
        profile[i].exists =>
            /\ \A k \in 1..Len(profile[i].phone) : IsDigit(profile[i].phone[k])
            /\ Len(profile[i].phone) >= 7

\* C23: each identity has at most one profile, created once.  A profile
\* comes into existence only at the commit of a create call for an identity
\* that has none, and never goes away; no update creates or deletes one.
\* A create call for an identity that has a profile or whose
\* isProfileComplete is true ends with Conflict (409) and changes nothing,
\* so of two overlapping create calls for one identity at most one
\* succeeds.
C23_ProfileCreatedOnce ==
    [][/\ \A i \in Ids :
             profile'[i].exists # profile[i].exists =>
                 /\ ~profile[i].exists
                 /\ \E p \in Procs : /\ Commits(p) /\ proc[p].op = "create" /\ proc[p].id = i
                                     /\ proc'[p].result = Ok
       /\ \A p \in Procs :
             /\ (Finishes(p) /\ proc[p].op = "create"
                   /\ (profile[proc[p].id].exists \/ identity[proc[p].id].isProfileComplete)) =>
                     /\ proc'[p].result.code = 409
                     /\ UNCHANGED <<identity, profile>>
             /\ \A i \in Ids, ptoken \in VerifiedPhoneTokens :
                   (/\ profile[i].exists \/ identity[i].isProfileComplete
                    /\ IF variant = "owner" THEN OwnerProfileService_Load(p, i, ptoken)
                       ELSE CustomerProfileService_Load(p, i, ptoken)) =>
                       /\ proc'[p].pc = "done" /\ proc'[p].result.code = 409
                       /\ UNCHANGED <<identity, profile>>]_vars

C23_Witness ==
    \E p, q \in Procs :
        /\ Overlapped(p, q) /\ proc[p].pc = "done" /\ proc[q].pc = "done"
        /\ proc[p].op = "create" /\ proc[q].op = "create"
        /\ proc[p].id = proc[q].id
        /\ proc[p].result = Ok /\ proc[q].result.code = 409
        /\ profile[proc[p].id].exists /\ profile[proc[p].id].phone = proc[p].phone
        /\ proc[q].phone # proc[p].phone

\* C24: a successful create call creates the profile row and sets
\* isProfileComplete and isActive in one commit: starting from identities
\* with no profile and isProfileComplete = false, in every reachable state
\* an identity has a profile if and only if its isProfileComplete is true,
\* and an identity that has a profile is active.
C24_OnboardingAtomic ==
    \A i \in Ids :
        /\ profile[i].exists <=> identity[i].isProfileComplete
        /\ profile[i].exists => identity[i].isActive

C24_Witness ==
    \E p \in Procs :
        /\ variant = "customer"
        /\ proc[p].pc = "done" /\ proc[p].op = "create" /\ proc[p].result = Ok
        /\ profile[proc[p].id].exists
        /\ identity[proc[p].id].isProfileComplete /\ identity[proc[p].id].isActive
        /\ \E j \in Ids : ~profile[j].exists /\ ~identity[j].isProfileComplete /\ ~identity[j].isActive

\* C25: a uniqueness conflict surfaces as the same kind whether the lookup
\* before the write finds it or the unique index does after two
\* transactions passed their lookups: a create or update refused for a
\* phone of another profile ends with a 409 of PhoneInUse, a confirmation
\* refused for an email of another identity with a 409 of EmailInUse, and
\* no write statement ends a call with a 500.
C25_BackstopSameKind ==
    [][\A p \in Procs :
          LET r == proc[p]
              res == proc'[p].result
          IN  (Finishes(p) /\ res # Ok) =>
                  /\ (r.pc \in {"create", "applyProfile", "write"} => res.code \in {404, 409})
                  /\ (/\ r.pc \in {"phoneCheck", "create", "applyProfile"}
                      /\ profile[r.id].exists <=> r.op = "update"
                      /\ r.phone \notin {AbsentPhone, ViewP(r).phone}
                      /\ PhoneIndexViolation(r.id, r.phone)) => res \in PhoneInUse
                  /\ (/\ r.pc \in {"emailCheck", "write"}
                      /\ r.op = "confirm"
                      /\ EmailIndexViolation(r.id, r.etoken.newEmail)) => res \in EmailInUse]_vars

C25_Witness ==
    \E p, q \in Procs :
        /\ proc[p].op \in {"create", "update"} /\ proc[p].pc \in {"create", "applyProfile"}
        /\ profile[proc[p].id].exists <=> proc[p].op = "update"
        /\ PhoneIndexViolation(proc[p].id, proc[p].phone)
        /\ proc[q].pc = "done" /\ proc[q].result = Ok /\ proc[q].phone = proc[p].phone
        /\ p \in proc[q].conc

\* C26 as stated: after a successful update every optional profile field is
\* as before when absent, null when null, and the trimmed value when a
\* value was given.
C26_ThreeValued ==
    [][\A p \in Procs :
          (Commits(p) /\ proc[p].op = "update") =>
              LET in == proc[p].fields
                  before == profile[proc[p].id]
                  after == profile'[proc[p].id]
              IN  \A f \in {"shortBio", "gstNumber", "pincode", "address"} :
                      after[f] = IF in[f] = AbsentPhone THEN before[f]
                                 ELSE IF in[f] = NullPhone THEN NullPhone
                                 ELSE IF variant = "customer" THEN in[f]
                                 ELSE TrimSeq(in[f])]_vars

\* C26: after a successful update, made while no other call is open, an
\* optional profile field is as before when absent and null when null; a
\* value is stored trimmed, and as null when nothing is left of it; pincode
\* loses all its spaces; the customer's address is stored as given; and an
\* owner call with isGstRegistered = false leaves gstNumber, gstLegalName,
\* gstStateCode and gstBillingAddress null whatever it carries for them.
C26_ThreeValuedOrCleared ==
    [][\A p \in Procs :
          (Commits(p) /\ proc[p].op = "update") =>
              LET in == proc[p].fields
                  before == profile[proc[p].id]
                  after == profile'[proc[p].id]
                  Stored(f) ==
                      IF in[f] = AbsentPhone THEN before[f]
                      ELSE IF in[f] = NullPhone THEN NullPhone
                      ELSE IF variant = "customer" THEN in[f]
                      ELSE IF TrimSeq(in[f]) = <<>> THEN NullPhone
                      ELSE IF f = "pincode" THEN SelectSeq(in[f], LAMBDA c : c # " ")
                      ELSE TrimSeq(in[f])
              IN  /\ after.shortBio = Stored("shortBio")
                  /\ after.pincode = Stored("pincode")
                  /\ after.address = Stored("address")
                  /\ \A f \in {"gstNumber", "gstLegalName", "gstStateCode", "gstBillingAddress"} :
                         after[f] = IF in.isGstRegistered = "false" THEN NullPhone
                                    ELSE Stored(f)]_vars

C26_Witness ==
    \E i \in Ids :
        /\ proc[1].pc = "done" /\ proc[1].op = "update" /\ proc[1].result = Ok
        /\ proc[1].id = i
        /\ proc[1].fields.shortBio = NullPhone /\ proc[1].fields.gstNumber = AbsentPhone
        /\ proc[1].fields.isGstRegistered = Absent
        /\ profile[i].shortBio = NullPhone /\ profile[i].gstNumber # NullPhone
        /\ \E j \in Ids \ {i} : profile[j].shortBio # NullPhone

\* phoneChanged of UpdateOwnerProfileService (phoneOtpSent of
\* CustomerProfileUpdateService): set where the phone is staged.
phoneChanged(r) == r.phone # AbsentPhone

\* C27: a phone change is direct and reported truthfully.  An update that
\* goes on after its first checks has phoneChanged set exactly when it
\* carried a phone-verification token that passes the gate and decodes to a
\* phone other than the stored one, and then it has decided on that phone;
\* a customer update, which carries no token, never succeeds with it set.
\* A successful update with phoneChanged leaves the decided phone in the
\* profile at its commit, one without it leaves the phone as it was, and
\* it returns an emailChangeLink exactly when it has incremented
\* emailVerifyVersion.
C27_PhoneChangeReported ==
    /\ [](\A p \in Procs, i \in Ids :
            (variant = "owner" /\ \A q \in Procs : CanStart(q)) =>
                      \A ptoken \in PhoneTokens \cup {NoPhoneToken},
                         email \in OwnerEmailInputs, fullName \in OwnerNameInputs :
                          ~ENABLED (/\ UpdateOwnerProfileService_Load(p, i, email, fullName, ptoken)
                                    /\ proc'[p].pc # "done"
                                    /\ ~(/\ phoneChanged(proc'[p]) <=>
                                              /\ PassesPhoneGate(ptoken)
                                              /\ DigitsOnly(TrimSeq(ptoken.phone)) # profile[i].phone
                                         /\ phoneChanged(proc'[p]) =>
                                              proc'[p].phone = DigitsOnly(TrimSeq(ptoken.phone)))))
    /\ [][\A p \in Procs :
             (Commits(p) /\ proc[p].op = "update") =>
                 /\ variant = "customer" => ~phoneChanged(proc[p])
                 /\ phoneChanged(proc[p]) => profile'[proc[p].id].phone = proc[p].phone
                 /\ ~phoneChanged(proc[p]) =>
                        profile'[proc[p].id].phone = profile[proc[p].id].phone
                 /\ proc[p].link # NoToken <=>
                        identity'[proc[p].id].emailVerifyVersion
                            = identity[proc[p].id].emailVerifyVersion + 1
                 /\ proc[p].link = NoToken =>
                        identity'[proc[p].id].emailVerifyVersion
                            = identity[proc[p].id].emailVerifyVersion]_vars

\* One step of the email-change state machine written once for both
\* variants, badToken being the answers to a token that fails verification:
\* what a call answers and what it leaves of (email, emailVerifyVersion)
\* is decided by the stored emails, versions and active flags alone.
EmailMachineStep(badToken) ==
    LET r == proc[1]
        TakenByOther(i, e) == \E j \in Ids \ {i} : identity[j].email = e
        Refused(results) ==
            /\ proc'[1].result \in results
            /\ UNCHANGED <<identity, issued>>
    IN  /\ \A i \in Ids, e \in Emails :
              (IF variant = "owner"
               THEN UpdateOwnerProfileService_Load(1, i, e, Absent, NoPhoneToken)
               ELSE CustomerProfileUpdateService_Load(1, i, e, Absent, AbsentPhone)) =>
                  IF e = identity[i].email
                  THEN proc'[1].pc = "done" /\ Refused({NoChanges})
                  ELSE proc'[1].pc # "done" /\ proc'[1].email = e /\ UNCHANGED <<identity, issued>>
        /\ \A t \in issued, sig \in TokenSigs :
              ConfirmCall(1, t, sig) =>
                  IF sig # "ok" THEN proc'[1].pc = "done" /\ Refused(badToken)
                  ELSE IF t.version # identity[t.id].emailVerifyVersion
                  THEN proc'[1].pc = "done" /\ Refused({StaleLink})
                  ELSE IF t.oldEmail # identity[t.id].email
                  THEN proc'[1].pc = "done" /\ Refused({EmailMismatch})
                  ELSE proc'[1].pc # "done" /\ UNCHANGED <<identity, issued>>
        /\ (InFlight(1) /\ ~Finishes(1)) => UNCHANGED <<identity, issued>>
        /\ (Finishes(1) /\ r.op = "update") =>
              IF TakenByOther(r.id, r.email) THEN Refused(InitiationEmailInUse)
              ELSE IF ~identity[r.id].isActive THEN Refused({InactiveAccount})
              ELSE /\ proc'[1].result = Ok
                   /\ identity' = [identity EXCEPT ![r.id].emailVerifyVersion = @ + 1]
                   /\ issued' = issued \cup
                          {emailChangeToken(r.id, r.email, identity[r.id].email,
                                            identity[r.id].emailVerifyVersion + 1)}
        /\ (Finishes(1) /\ r.op = "confirm") =>
              IF TakenByOther(r.id, r.etoken.newEmail) THEN Refused(EmailInUse)
              ELSE /\ proc'[1].result = Ok
                   /\ identity' = [identity EXCEPT ![r.id].emailVerifyVersion = @ + 1,
                                                   ![r.id].email = r.etoken.newEmail]
                   /\ issued' = issued

C29_OldEmailBound ==
    /\ \A t \in issued :
           t.version = identity[t.id].emailVerifyVersion =>
               t.oldEmail = identity[t.id].email
    /\ \A p \in Procs :
           /\ (InFlight(p) /\ proc[p].op = "update" /\ proc[p].link # NoToken) =>
                  /\ proc[p].lockI
                  /\ proc[p].link.oldEmail = proc[p].rowI.email
                  /\ proc[p].link.oldEmail = identity[proc[p].id].email
                  /\ proc[p].link.version = proc[p].rowI.emailVerifyVersion
           /\ proc[p].pc = "done" => proc[p].result # EmailMismatch

C29_Witness ==
    \E t, u \in issued :
        /\ t.id = u.id
        /\ t.version = identity[t.id].emailVerifyVersion
        /\ t.oldEmail = identity[t.id].email
        /\ u \in used /\ u.newEmail = t.oldEmail /\ u.oldEmail # t.oldEmail
        /\ \E p \in Procs : proc[p].pc = "done" /\ proc[p].op = "confirm" /\ proc[p].conc # {}

\* C30: token versions are unique per identity.  Two tokens minted for one
\* identity, issued or still held by an open call, never carry the same
\* version, also when the initiations overlap; so at most one issued token
\* of an identity carries its current emailVerifyVersion: after an
\* initiation commits it is the token that call returns, after a
\* confirmation commits there is none.
C30_VersionsUnique ==
    /\ [](\A t, u \in issued \cup ({proc[p].link : p \in Procs} \ {NoToken}) :
              (t.id = u.id /\ t.version = u.version) => t = u)
    /\ [](\A i \in Ids :
              Cardinality({t \in issued :
                              t.id = i /\ t.version = identity[i].emailVerifyVersion}) <= 1)
    /\ [][\A p \in Procs :
             (Commits(p) /\ Bumping(proc[p])) =>
                 {t \in issued' : /\ t.id = proc[p].id
                                  /\ t.version = identity'[proc[p].id].emailVerifyVersion}
                     = IF proc[p].op = "update" THEN {proc[p].link} ELSE {}]_vars

C30_Witness ==
    \E p, q \in Procs :
        /\ Overlapped(p, q)
        /\ proc[p].pc = "done" /\ proc[p].op = "update" /\ proc[p].result = Ok
        /\ proc[q].pc = "done" /\ proc[q].op = "update" /\ proc[q].result = Ok
        /\ proc[p].id = proc[q].id
        /\ proc[p].link \in issued /\ proc[q].link \in issued
        /\ proc[q].link.version = proc[p].link.version + 1
        /\ identity[proc[p].id].emailVerifyVersion = proc[q].link.version

\* ------------------------------------------------------------ order of confirm's checks
\* The links identity 1 received for its two earlier requests, a change to
\* c@x.com and then a change to d@x.com.
EarlierLinks ==
    {emailChangeToken(1, "c@x.com", "a@x.com", 1), emailChangeToken(1, "d@x.com", "a@x.com", 2)}

\* Both identities have their profiles and identity 1 has asked for an
\* email change twice.
InitSuperseded ==
    /\ variant \in {"owner", "customer"}
    /\ identity = [i \in Ids |->
                     [email |-> InitialEmail(i), isActive |-> TRUE, isProfileComplete |-> TRUE,
                      emailVerifyVersion |-> IF i = 1 THEN 2 ELSE 0,
                      pendingEmail |-> Null, fullName |-> "Asha"]]
    /\ profile = [i \in Ids |->
                    [NoProfileRow EXCEPT !.exists = TRUE, !.phone = IF i = 1 THEN PhA ELSE PhB]]
    /\ proc = [p \in Procs |-> IdleProc]
    /\ issued = {}
    /\ used = {}
    /\ hist = NoHist
    /\ tokenBlacklist = {}
    /\ req = NoRequest

\* Initiations and confirmations one after another.  A confirmation is
\* called with a link the service has sent, with such a link signed without
\* its version, or with such a link after its identity has been removed.
NextConfirmOrder ==
    \/ \E i \in Ids, email \in Emails :
           UpdateOwnerProfileService_Load(1, i, email, Absent, NoPhoneToken)
    \/ \E i \in Ids, email \in Emails :
           CustomerProfileUpdateService_Load(1, i, email, Absent, AbsentPhone)
    \/ \E u \in issued \cup EarlierLinks, sig \in TokenSigs :
           \E t \in {u, Versionless(u), [u EXCEPT !.id = NoSuchId]} :
               \/ verifyEmailChangeTokenService_Load(1, t, sig)
               \/ VerifyCustomerEmailChangeService_Load(1, t, sig)
    \/ EmailRaceStep(1)
    \/ Reply(1)
SpecConfirmOrder == InitSuperseded /\ [][NextConfirmOrder]_vars

\* C31: confirm evaluates its guards in the order token validity, identity
\* NotFound, StaleLink, EmailMismatch, EmailInUse and reports the first that
\* fails.  In every state in which no call is in progress, a confirmation
\* called with any payload and presentation is answered by the first of the
\* first four guards that fails, and reaches the email lookup when none
\* does; a confirmation that has reached the lookup ends with EmailInUse if
\* another identity holds the new email and succeeds otherwise.
C31_ConfirmOrder ==
    /\ [](\A p \in Procs :
            (\A q \in Procs : CanStart(q)) =>
                \A t \in [id : Ids \cup {NoSuchId}, newEmail : Emails,
                          oldEmail : Emails \cup {"b@x.com"},
                          version : (0..MaxVersion) \cup {NoToken.version}],
                   sig \in TokenSigs :
                    LET firstFailing ==
                            IF sig # "ok"
                            THEN IF variant = "owner" THEN OwnerInvalidOrExpired
                                 ELSE CustomerInvalidOrExpired
                            ELSE IF t.id \notin Ids
                            THEN {Err(404, "Owner not found"), Err(404, "Customer not found")}
                            ELSE IF t.version # identity[t.id].emailVerifyVersion
                            THEN {StaleLink}
                            ELSE IF t.oldEmail # identity[t.id].email
                            THEN {EmailMismatch}
                            ELSE {}
                    IN  ~ENABLED (/\ ConfirmCall(p, t, sig)
                                  /\ ~ IF firstFailing = {}
                                       THEN proc'[p].pc = "emailCheck"
                                       ELSE /\ proc'[p].pc = "done"
                                            /\ proc'[p].result \in firstFailing
                                            /\ UNCHANGED <<identity, profile, issued, used>>))
    /\ [][\A p \in Procs :
            LET t == proc[p].etoken
                taken == \E j \in Ids \ {t.id} :
                            \/ identity[j].email = t.newEmail
                            \/ identity[j].pendingEmail = t.newEmail
                            \/ (variant = "customer" /\ profile[j].exists
                                  /\ profile[j].email = t.newEmail)
            IN  (Finishes(p) /\ proc[p].op = "confirm") =>
                    IF taken THEN proc'[p].result \in EmailInUse
                    ELSE proc'[p].result = Ok /\ identity'[t.id].email = t.newEmail]_vars

C31_Witness ==
    \E p \in Procs :
        LET t == proc[p].etoken
        IN  /\ proc[p].pc = "done" /\ proc[p].op = "confirm" /\ proc[p].result = StaleLink
            /\ t.version \in 1..MaxVersion
            /\ t.version # identity[t.id].emailVerifyVersion
            /\ \E j \in Ids \ {t.id} : identity[j].email = t.newEmail

\* ------------------------------------------------------------ order of update's checks
\* Profile creations and updates one after another, with no confirmation;
\* c@x.com is the one email that no identity holds.
NextUpdateOrder ==
    \/ \E i \in Ids, ptoken \in VerifiedPhoneTokens : OwnerProfileService_Load(1, i, ptoken)
    \/ \E i \in Ids, ptoken \in VerifiedPhoneTokens : CustomerProfileService_Load(1, i, ptoken)
    \/ \E i \in Ids \cup {NoSuchId} :
           \E email \in (IF i \in Ids THEN OwnerEmailInputs \ {"d@x.com"} ELSE {Absent}),
              fullName \in (IF i \in Ids THEN OwnerNameInputs ELSE {Absent}),
              ptoken \in (IF i \in Ids THEN PhoneTokens \cup {NoPhoneToken} ELSE {NoPhoneToken}) :
               UpdateOwnerProfileService_Load(1, i, email, fullName, ptoken)
    \/ \E i \in Ids \cup {NoSuchId} :
           \E email \in (IF i \in Ids THEN CustomerEmailInputs \ {"d@x.com"} ELSE {Absent}),
              fullName \in (IF i \in Ids THEN CustomerNameInputs ELSE {Absent}),
              phone \in (IF i \in Ids THEN CustomerPhoneInputs ELSE {AbsentPhone}) :
               CustomerProfileUpdateService_Load(1, i, email, fullName, phone)
    \/ PhoneRaceStep(1)
    \/ UpdateOwnerProfileService_EmailCheck(1)
    \/ UpdateOwnerProfileService_BumpVersion(1)
    \/ UpdateOwnerProfileService_ApplyAdmin(1)
    \/ CustomerProfileUpdateService_EmailCheck(1)
    \/ CustomerProfileUpdateService_EmailCheckProfile(1)
    \/ CustomerProfileUpdateService_BumpVersion(1)
    \/ CustomerProfileUpdateService_ApplyCustomer(1)
    \/ Reply(1)
SpecUpdateOrder == Init /\ [][NextUpdateOrder]_vars

\* C32: update reports the first failing guard in the order identity
\* NotFound, phone-token verification failure, MutuallyExclusiveChange,
\* PhoneInUse, EmailInUse, InactiveAccount, NoChanges.  In every state in
\* which no call is in progress, an update with a usable fullName is
\* answered NotFound if its identity (for an owner, its profile) does not
\* exist, otherwise with the failure of its phone token, otherwise with
\* MutuallyExclusiveChange if it changes both email and phone, whether or
\* not the phone or the email is in use; otherwise it goes to the phone
\* lookup, to the email checks, or is answered NoChanges.  A call at the
\* phone lookup ends with PhoneInUse exactly if another identity holds the
\* phone, and a call at the email checks with a well-formed email ends with
\* EmailInUse if another identity holds the email, also for an identity that
\* is not active, and with InactiveAccount only if none does.
C32_UpdateOrder ==
    /\ [](\A p \in Procs :
            (\A q \in Procs : CanStart(q)) =>
                \A i \in Ids \cup {NoSuchId} :
                    LET answered(results) ==
                            /\ proc'[p].pc = "done" /\ proc'[p].result \in results
                            /\ UNCHANGED <<identity, profile, issued>>
                        goes(pc) == proc'[p].pc = pc
                    IN  /\ variant = "owner" =>
                            \A email \in OwnerEmailInputs \ {"d@x.com"}, fullName \in {Absent, "Ravi"},
                               ptoken \in PhoneTokens \cup {NoPhoneToken} :
                                LET wantsEmail == /\ email \notin {Absent, Null}
                                                  /\ Trim(email) \notin {"", identity[i].email}
                                    wantsPhone == /\ ptoken # NoPhoneToken
                                                  /\ DigitsOnly(ptoken.phone) # profile[i].phone
                                    staged == fullName # Absent
                                    expected ==
                                        IF i \notin Ids \/ ~profile[i].exists
                                        THEN answered({Err(404, "Owner not found")} \cup ProfileNotFound)
                                        ELSE IF ptoken # NoPhoneToken /\ ptoken \notin ValidPhoneTokens
                                        THEN answered({PhoneNotVerified,
                                                       Err(400, "Invalid phone number in verification token. Please re-verify your phone.")}
                                                        \cup PhoneTokenExpired)
                                        ELSE IF wantsEmail /\ wantsPhone
                                        THEN answered({MutuallyExclusiveChange})
                                        ELSE IF wantsPhone THEN goes("phoneCheck")
                                        ELSE IF wantsEmail THEN goes("emailCheck")
                                        ELSE IF ~staged THEN answered({NoChanges})
                                        ELSE goes("applyAdmin")
                                IN  ~ENABLED (/\ UpdateOwnerProfileService_Load(p, i, email, fullName, ptoken)
                                              /\ ~expected)
                        /\ variant = "customer" =>
                            \A email \in CustomerEmailInputs \ {""}, fullName \in CustomerNameInputs,
                               phone \in CustomerPhoneInputs \ {NoPhone} :
                                LET wantsEmail == email # Absent /\ email # identity[i].email
                                    wantsPhone == /\ phone # AbsentPhone
                                                  /\ phone # CustomerCurrentPhone(profile[i])
                                    expected ==
                                        IF i \notin Ids
                                        THEN answered({Err(404, "Customer not found")})
                                        ELSE IF wantsEmail /\ wantsPhone
                                        THEN answered({MutuallyExclusiveChange})
                                        ELSE IF wantsPhone THEN goes("phoneCheck")
                                        ELSE IF wantsEmail THEN goes("emailCheck")
                                        ELSE IF fullName = Absent THEN answered({NoChanges})
                                        ELSE goes("applyCustomer")
                                IN  ~ENABLED (/\ CustomerProfileUpdateService_Load(p, i, email, fullName, phone)
                                              /\ ~expected))
    /\ [][\A p \in Procs :
            LET r == proc[p]
                phoneTaken == \E j \in Ids \ {r.id} : profile[j].exists /\ profile[j].phone = r.phone
                emailTaken == \E j \in Ids \ {r.id} :
                                 \/ identity[j].email = r.email
                                 \/ identity[j].pendingEmail = r.email
                                 \/ (variant = "customer" /\ profile[j].exists
                                       /\ profile[j].email = r.email)
                decides == IF variant = "owner" THEN "emailCheck" ELSE "emailCheckProfile"
            IN  (InFlight(p) /\ r.op = "update" /\ proc'[p] # r) =>
                    /\ r.pc = "phoneCheck" =>
                          IF phoneTaken
                          THEN proc'[p].pc = "done" /\ proc'[p].result \in PhoneInUse
                          ELSE proc'[p].pc # "done"
                    /\ (r.pc = decides /\ EmailFormatOk(r.email)) =>
                          IF emailTaken
                          THEN proc'[p].pc = "done" /\ proc'[p].result \in InitiationEmailInUse
                          ELSE IF ~identity[r.id].isActive
                          THEN proc'[p].pc = "done" /\ proc'[p].result = InactiveAccount
                          ELSE proc'[p].pc = "bump"
                    /\ (Finishes(p) /\ r.pc \notin {"phoneCheck", "emailCheck", "emailCheckProfile"}) =>
                          proc'[p].result \notin
                              PhoneInUse \cup InitiationEmailInUse
                                \cup {InactiveAccount, MutuallyExclusiveChange, NoChanges}]_vars

C32_Witness ==
    \E p \in Procs, j \in Ids :
        /\ proc[p].pc = "done" /\ proc[p].op = "update"
        /\ proc[p].result \in InitiationEmailInUse
        /\ j # proc[p].id
        /\ ~identity[proc[p].id].isActive
        /\ identity[j].email \in Emails

\* ------------------------------------------------------------ reuse of phone tokens
\* One verified, unexpired token for each of three phones.
ReusablePhoneTokens == [sig : {"ok"}, isVerified : {TRUE}, phone : {PhA, PhB, PhC}]

\* Profile creations and phone changes; a slot may keep its reply while the
\* other takes further calls.
NextPhoneReuse ==
    \E p \in Procs :
        \/ \E i \in Ids, ptoken \in ReusablePhoneTokens : OwnerProfileService_Load(p, i, ptoken)
        \/ \E i \in Ids, ptoken \in ReusablePhoneTokens :
               UpdateOwnerProfileService_Load(p, i, Absent, Absent, ptoken)
        \/ \E i \in Ids, ptoken \in ReusablePhoneTokens : CustomerProfileService_Load(p, i, ptoken)
        \/ \E i \in Ids, ptoken \in ReusablePhoneTokens :
               CustomerProfileUpdateService_Load(p, i, Absent, Absent, ptoken.phone)
        \/ PhoneRaceStep(p)
        \/ Reply(p)
SpecPhoneReuse == Init /\ [][NextPhoneReuse]_vars

\* C33: phone-verification tokens are stateless.  Whatever calls came
\* before, a call carrying a verified, unexpired token is taken up on the
\* strength of the token and the stored rows alone: in every state in which
\* no call is in progress, an owner update with a token whose phone differs
\* from the stored one goes to the phone lookup with that phone, and a
\* creation for an identity without a completed profile goes to its checks;
\* and a call that carries a phone is refused only for what is stored at
\* that moment, a profile holding the phone or the profile of the caller
\* being there already (or, for a customer update, missing when the call
\* loaded it).
C33_PhoneTokensStateless ==
    /\ [](\A p \in Procs :
            (\A q \in Procs : CanStart(q)) =>
                \A i \in Ids, ptoken \in ReusablePhoneTokens :
                    /\ (variant = "owner" /\ profile[i].exists /\ ptoken.phone # profile[i].phone) =>
                          ~ENABLED (/\ UpdateOwnerProfileService_Load(p, i, Absent, Absent, ptoken)
                                    /\ ~(/\ proc'[p].pc = "phoneCheck"
                                         /\ proc'[p].phone = ptoken.phone))
                    /\ (variant = "owner" /\ ~identity[i].isProfileComplete) =>
                          ~ENABLED (/\ OwnerProfileService_Load(p, i, ptoken)
                                    /\ ~(/\ proc'[p].pc = "profileCheck"
                                         /\ proc'[p].phone = ptoken.phone))
                    /\ (variant = "customer" /\ ~identity[i].isProfileComplete) =>
                          ~ENABLED (/\ CustomerProfileService_Load(p, i, ptoken)
                                    /\ ~(/\ proc'[p].pc = "phoneCheck"
                                         /\ proc'[p].phone = ptoken.phone)))
    /\ [][\A p \in Procs :
            LET r == proc[p]
            IN  (Finishes(p) /\ r.phone # AbsentPhone /\ proc'[p].result # Ok) =>
                    \/ /\ proc'[p].result \in PhoneInUse
                       /\ \E j \in Ids : profile[j].exists /\ profile[j].phone = r.phone
                    \/ /\ proc'[p].result.code = 409
                       /\ r.op = "create" /\ profile[r.id].exists
                    \/ /\ proc'[p].result.code = 404
                       /\ r.op = "update" /\ ~r.hasProfile]_vars

\* Identity 2 has been granted the phone with the very token identity 1
\* was granted it with before moving to another phone.
C33_Witness ==
    \E p, q \in Procs :
        /\ p # q
        /\ proc[p].pc = "done" /\ proc[p].result = Ok /\ proc[p].id = 1
        /\ proc[q].pc = "done" /\ proc[q].result = Ok /\ proc[q].id = 2
        /\ proc[p].phone = PhA /\ proc[q].phone = PhA
        /\ proc[p].op = "create" /\ proc[q].op \in {"create", "update"}
        /\ variant = "owner"
        /\ profile[2].phone = PhA /\ profile[1].exists /\ profile[1].phone # PhA

\* ------------------------------------------------------------ the GST block
\* The GST fields of a creation or an update of owner 1: each absent, null,
\* well-formed or not.
OwnerGstInputs ==
    [shortBio : {AbsentPhone}, pincode : {AbsentPhone}, address : {AbsentPhone},
     isGstRegistered : {Absent, "true", "false"},
     gstNumber : {AbsentPhone, NullPhone, [k \in 1..15 |-> "7"], <<"7", "7">>},
     gstLegalName : {AbsentPhone, NullPhone, <<"A", "B", " ">>},
     gstStateCode : {AbsentPhone, <<"2", "9">>, <<"K", "A">>},
     gstBillingAddress : {AbsentPhone, <<"M", "G">>}]

\* Owner creations and updates carrying the GST block, one after another;
\* owner 2 completes its profile with or without the GST number owner 1 uses.
NextGst ==
    \/ \E fields \in OwnerGstInputs :
           OwnerProfileService_LoadFields(1, 1, [sig |-> "ok", isVerified |-> TRUE, phone |-> PhA],
                                          fields)
    \/ \E fields \in {f \in OwnerGstInputs :
                         /\ f.isGstRegistered # "false" /\ f.gstBillingAddress = AbsentPhone
                         /\ (f.isGstRegistered = Absent => f.gstNumber = AbsentPhone)
                         /\ f.gstNumber \in {AbsentPhone, [k \in 1..15 |-> "7"]}
                         /\ (f.gstLegalName = AbsentPhone) = (f.gstNumber = AbsentPhone)
                         /\ (f.gstStateCode = <<"2", "9">>) = (f.gstNumber # AbsentPhone)
                         /\ f.gstLegalName # NullPhone /\ f.gstStateCode # <<"K", "A">>} :
           OwnerProfileService_LoadFields(1, 2, [sig |-> "ok", isVerified |-> TRUE, phone |-> PhB],
                                          fields)
    \/ \E fields \in OwnerGstInputs :
           UpdateOwnerProfileService_LoadFields(1, 1, Absent, Absent, NoPhoneToken, fields)
    \/ OwnerProfileService_ProfileCheck(1)
    \/ OwnerProfileService_PhoneCheck(1)
    \/ OwnerProfileService_Create(1)
    \/ OwnerProfileService_MarkComplete(1)
    \/ OwnerProfileService_Commit(1)
    \/ UpdateOwnerProfileService_ApplyProfile(1)
    \/ UpdateOwnerProfileService_Commit(1)
    \/ Reply(1)
SpecGst == Init /\ [][NextGst]_vars

\* C34: an owner profile with isGstRegistered = true has a gstNumber of
\* length 15, a gstLegalName and a gstStateCode of two digits, none of them
\* null; and in every state in which no call is in progress, an update that
\* would leave the profile registered without one of them is refused with
\* 400 and changes nothing.
C34_RegisteredComplete ==
    /\ \A i \in Ids :
          (profile[i].exists /\ profile[i].isGstRegistered) =>
              /\ profile[i].gstNumber # NullPhone /\ Len(profile[i].gstNumber) = 15
              /\ profile[i].gstLegalName \notin {NullPhone, <<>>}
              /\ profile[i].gstStateCode # NullPhone /\ Len(profile[i].gstStateCode) = 2
              /\ \A k \in 1..2 : profile[i].gstStateCode[k] \in Digit
    /\ \A i \in Ids :
          (profile[i].exists /\ \A q \in Procs : CanStart(q)) =>
              \A in \in OwnerGstInputs :
                  LET prof == profile[i]
                      registered == IF in.isGstRegistered = Absent THEN prof.isGstRegistered
                                    ELSE in.isGstRegistered = "true"
                      Left(f) == IF in[f] = AbsentPhone THEN prof[f]
                                 ELSE IF in[f] = NullPhone \/ TrimSeq(in[f]) = <<>> THEN NullPhone
                                 ELSE TrimSeq(in[f])
                      complete ==
                          /\ Left("gstNumber") # NullPhone /\ Len(Left("gstNumber")) = 15
                          /\ Left("gstLegalName") # NullPhone
                          /\ Left("gstStateCode") # NullPhone /\ Len(Left("gstStateCode")) = 2
                          /\ \A k \in 1..2 : Left("gstStateCode")[k] \in Digit
                  IN  (registered /\ ~complete) =>
                          ~ENABLED (/\ UpdateOwnerProfileService_LoadFields(
                                           1, i, Absent, Absent, NoPhoneToken, in)
                                    /\ ~(/\ proc'[1].pc = "done" /\ proc'[1].result.code = 400
                                         /\ UNCHANGED <<identity, profile, issued>>))

C34_Witness ==
    /\ proc[1].pc = "done"
    /\ proc[1].result = Err(400, "GST legal name is required when GST registration is enabled.")
    /\ profile[1].exists /\ profile[1].isGstRegistered
    /\ profile[1].gstLegalName = <<"A", "B">>
    /\ profile[2].exists /\ ~profile[2].isGstRegistered

\* C35 as claimed: an owner profile with isGstRegistered = false has
\* gstNumber, gstLegalName, gstStateCode and gstBillingAddress all null.
C35_UnregisteredCarryNothing ==
    \A i \in Ids :
        (profile[i].exists /\ ~profile[i].isGstRegistered) =>
            /\ profile[i].gstNumber = NullPhone
            /\ profile[i].gstLegalName = NullPhone
            /\ profile[i].gstStateCode = NullPhone
            /\ profile[i].gstBillingAddress = NullPhone

\* C35: a creation that leaves the profile unregistered stores null for
\* gstNumber, gstLegalName, gstStateCode and gstBillingAddress; an update
\* carrying isGstRegistered = false leaves the profile unregistered with all
\* four null, whatever it carries for them; and an update that leaves the
\* profile unregistered without carrying isGstRegistered leaves each of the
\* four as it was when absent, null when null or blank, and trimmed
\* otherwise.
C35_UnregisteredClearedWhenSaid ==
    [][\A p \in Procs :
          Commits(p) =>
              LET in == proc[p].fields
                  before == profile[proc[p].id]
                  after == profile'[proc[p].id]
                  Block == {"gstNumber", "gstLegalName", "gstStateCode", "gstBillingAddress"}
                  Stored(f) ==
                      IF in[f] = AbsentPhone THEN before[f]
                      ELSE IF in[f] = NullPhone \/ TrimSeq(in[f]) = <<>> THEN NullPhone
                      ELSE TrimSeq(in[f])
              IN  /\ (proc[p].op = "create" /\ ~after.isGstRegistered) =>
                         \A f \in Block : after[f] = NullPhone
                  /\ (proc[p].op = "update" /\ in.isGstRegistered = "false") =>
                         /\ ~after.isGstRegistered
                         /\ \A f \in Block : after[f] = NullPhone
                  /\ (proc[p].op = "update" /\ in.isGstRegistered = Absent
                         /\ ~after.isGstRegistered) =>
                         \A f \in Block : after[f] = Stored(f)]_vars

C35_Witness ==
    /\ proc[1].pc = "done" /\ proc[1].op = "update" /\ proc[1].result = Ok
    /\ proc[1].id = 1
    /\ proc[1].fields.isGstRegistered = "false"
    /\ proc[1].fields.gstNumber = [k \in 1..15 |-> "7"]
    /\ proc[1].fields.gstBillingAddress = <<"M", "G">>
    /\ profile[1].exists /\ ~profile[1].isGstRegistered
    /\ profile[1].gstNumber = NullPhone /\ profile[1].gstBillingAddress = NullPhone
    /\ profile[2].exists /\ profile[2].isGstRegistered

\* ------------------------------------------------- the customer's email copies
\* Customer 1 as sign-up leaves it; customer 2 with its profile and with a
\* pendingEmail in its row, the column that the email lookups read.
InitPending ==
    /\ variant \in {"customer"}
    /\ identity = [i \in Ids |->
                     [email |-> InitialEmail(i), isActive |-> i = 2,
                      isProfileComplete |-> i = 2, emailVerifyVersion |-> 0,
                      pendingEmail |-> IF i = 2 THEN "c@x.com" ELSE Null,
                      fullName |-> "Asha"]]
    /\ profile = [i \in Ids |->
                    IF i = 2 THEN [NoProfileRow EXCEPT !.exists = TRUE, !.phone = PhB]
                    ELSE NoProfileRow]
    /\ proc = [p \in Procs |-> IdleProc]
    /\ issued = {}
    /\ used = {}
    /\ hist = NoHist
    /\ tokenBlacklist = {}
    /\ req = NoRequest

\* Overlapping customer creations, email-change initiations and
\* confirmations.
NextCustomerSync ==
    \E p \in Procs :
        \/ \E i \in Ids :
               CustomerProfileService_Load(p, i, [sig |-> "ok", isVerified |-> TRUE, phone |-> PhA])
        \/ \E i \in Ids, email \in RaceEmailInputs :
               CustomerProfileUpdateService_Load(p, i, email, Absent, AbsentPhone)
        \/ \E t \in issued : VerifyCustomerEmailChangeService_Load(p, t, "ok")
        \/ CustomerProfileService_PhoneCheck(p)
        \/ CustomerProfileService_Create(p)
        \/ CustomerProfileService_MarkComplete(p)
        \/ CustomerProfileService_Commit(p)
        \/ CustomerProfileUpdateService_EmailCheck(p)
        \/ CustomerProfileUpdateService_EmailCheckProfile(p)
        \/ CustomerProfileUpdateService_BumpVersion(p)
        \/ CustomerProfileUpdateService_Commit(p)
        \/ VerifyCustomerEmailChangeService_EmailCheck(p)
        \/ VerifyCustomerEmailChangeService_EmailCheckProfile(p)
        \/ VerifyCustomerEmailChangeService_Update(p)
        \/ VerifyCustomerEmailChangeService_UpdateProfile(p)
        \/ VerifyCustomerEmailChangeService_Commit(p)
        \/ Reply(p)
SpecCustomerSync == InitPending /\ [][NextCustomerSync]_vars

\* C36: a CustomerProfile's email is unset or equal to its Customer's stored
\* email; and the commit of a successful confirmation leaves Customer.email
\* and CustomerProfile.email both at the token's newEmail and
\* Customer.pendingEmail null.
C36_EmailCopiesInSync ==
    /\ [](\A i \in Ids :
            profile[i].exists => profile[i].email \in {Null, identity[i].email})
    /\ [][\A p \in Procs :
            (Commits(p) /\ proc[p].op = "confirm" /\ proc'[p].result = Ok) =>
                LET i == proc[p].id
                IN  /\ identity'[i].email = proc[p].etoken.newEmail
                    /\ identity'[i].pendingEmail = Null
                    /\ profile'[i].exists
                    /\ profile'[i].email = proc[p].etoken.newEmail]_vars

C36_Witness ==
    \E p \in Procs :
        /\ proc[p].pc = "done" /\ proc[p].op = "confirm" /\ proc[p].result = Ok
        /\ proc[p].id = 2 /\ proc[p].etoken.newEmail = "d@x.com"
        /\ identity[2].email = "d@x.com" /\ identity[2].pendingEmail = Null
        /\ profile[2].email = "d@x.com"
        /\ profile[1].exists /\ profile[1].email = Null

\* ------------------------------------------------------------ access tokens
\* The Authorization header of a request: missing, of another scheme, or
\* "Bearer " followed by a token.
Headers ==
    [scheme : {"none", "Basic"}, token : {NoAccessToken}]
        \cup [scheme : {"Bearer"}, token : AccessTokens]

\* addTokenToBlacklist: prisma.tokenBlacklist.create({data: {tokenHash}});
\* a hash that is already there is refused by the unique index.
addTokenToBlacklist(token) ==
    /\ tokenBlacklist' = tokenBlacklist \cup {hashToken(token)}
    /\ UNCHANGED <<variant, identity, profile, proc, issued, used, hist, req>>

\* authenticateToken up to the call of isTokenBlacklisted.
authenticateToken_Header(h) ==
    /\ req.pc = "idle"
    /\ req' = IF h.scheme # "Bearer"
              THEN [NoRequest EXCEPT !.pc = "done", !.reply = Err(401, "No token provided")]
              ELSE [NoRequest EXCEPT !.pc = "lookup", !.token = h.token]
    /\ UNCHANGED <<variant, identity, profile, proc, issued, used, hist, tokenBlacklist>>

\* isTokenBlacklisted: the row found, or false when findUnique throws.
isTokenBlacklisted(token, throws) ==
    IF throws THEN FALSE ELSE hashToken(token) \in tokenBlacklist

\* const blacklisted = await isTokenBlacklisted(token); if (blacklisted) 401.
authenticateToken_Blacklisted ==
    /\ req.pc = "lookup"
    /\ \E throws \in BOOLEAN :
           req' = IF isTokenBlacklisted(req.token, throws)
                  THEN [req EXCEPT !.pc = "done", !.revoked = TRUE,
                                   !.reply = Err(401, "Token has been revoked")]
                  ELSE [req EXCEPT !.pc = "verify",
                                   !.revoked = hashToken(req.token) \in tokenBlacklist]
    /\ UNCHANGED <<variant, identity, profile, proc, issued, used, hist, tokenBlacklist>>

\* jwt.verify(token, env.JWT_SECRET); req.user = decoded; the catch block.
authenticateToken_Verify ==
    /\ req.pc = "verify"
    /\ req' = IF req.token.kind = "forged"
              THEN [req EXCEPT !.pc = "done", !.reply = Err(401, "Invalid token")]
              ELSE IF req.token.kind = "expired"
              THEN [req EXCEPT !.pc = "done", !.reply = Err(401, "Token has expired")]
              ELSE [req EXCEPT !.pc = "done", !.user = [id |-> req.token.sub]]
    /\ UNCHANGED <<variant, identity, profile, proc, issued, used, hist, tokenBlacklist>>

\* The request is over: answered, or handed to the route with req.user.
authenticateToken_Return ==
    /\ req.pc = "done"
    /\ req' = NoRequest
    /\ UNCHANGED <<variant, identity, profile, proc, issued, used, hist, tokenBlacklist>>

NextAuth ==
    \/ \E token \in AccessTokens : addTokenToBlacklist(token)
    \/ \E h \in Headers : authenticateToken_Header(h)
    \/ authenticateToken_Blacklisted
    \/ authenticateToken_Verify
    \/ authenticateToken_Return
SpecAuth == Init /\ [][NextAuth]_vars

\* C37: a request whose bearer token's hash is in the blacklist when the
\* lookup is made never has a user attached, and is answered with 401,
\* whether the lookup returns or throws.
C37_RevokedNeverAuthenticated ==
    req.revoked =>
        /\ req.user = NoUser
        /\ req.pc = "done" => req.reply.code = 401

====
